---- MODULE Spec2Model ----
(***************************************************************************)
(* Model of the Instagram comment monitor: the safety-delay manager, the   *)
(* fuzzy keyword matcher, the dedup ledger (replied.json) and the          *)
(* monitoring loop with its DM / reply executors.                          *)
(*                                                                         *)
(* Text is modelled as a sequence of one-character strings.  Time is an    *)
(* integer number of seconds.                                              *)
(***************************************************************************)
EXTENDS Integers, Sequences, FiniteSets, TLC

(***************************************************************************)
(* Text helpers (python str methods used by the matcher).                  *)
(***************************************************************************)
UpperCase == <<"A","B","C","D","E","F","G","H","I","J","K","L","M",
               "N","O","P","Q","R","S","T","U","V","W","X","Y","Z">>
LowerCase == <<"a","b","c","d","e","f","g","h","i","j","k","l","m",
               "n","o","p","q","r","s","t","u","v","w","x","y","z">>
Digits == {"0","1","2","3","4","5","6","7","8","9"}
Letters == {LowerCase[i] : i \in 1..26} \cup {UpperCase[i] : i \in 1..26}

\* str.isspace for the characters of the model alphabet
IsSpace(c) == c = " "

\* str.isalpha
IsAlpha(c) == c \in Letters

\* regex \w
IsWordChar(c) == c \in Letters \cup Digits \cup {"_"}

LowerChar(c) ==
    IF \E i \in 1..26 : UpperCase[i] = c
    THEN LowerCase[CHOOSE i \in 1..26 : UpperCase[i] = c]
    ELSE c

\* str.lower()
Lower(s) == [i \in 1..Len(s) |-> LowerChar(s[i])]

\* str.strip()
RECURSIVE Strip(_)
Strip(s) ==
    IF s = <<>> THEN s
    ELSE IF IsSpace(s[1]) THEN Strip(Tail(s))
    ELSE IF IsSpace(s[Len(s)]) THEN Strip(SubSeq(s, 1, Len(s) - 1))
    ELSE s

\* re.sub(r'\s+', '', s)
NoSpaces(s) == SelectSeq(s, LAMBDA c : ~IsSpace(c))

\* python `a in b` on strings
Contains(b, a) ==
    \E i \in 0..(Len(b) - Len(a)) : SubSeq(b, i + 1, i + Len(a)) = a

\* re.findall(r'\b\w+\b', s): the maximal runs of word characters
RECURSIVE WordsFrom(_, _, _)
WordsFrom(s, i, cur) ==
    IF i > Len(s)
    THEN IF cur = <<>> THEN <<>> ELSE <<cur>>
    ELSE IF IsWordChar(s[i])
         THEN WordsFrom(s, i + 1, Append(cur, s[i]))
         ELSE IF cur = <<>>
              THEN WordsFrom(s, i + 1, <<>>)
              ELSE <<cur>> \o WordsFrom(s, i + 1, <<>>)

Words(s) == WordsFrom(s, 1, <<>>)

Abs(x) == IF x < 0 THEN -x ELSE x
Max(a, b) == IF a > b THEN a ELSE b
Min(a, b) == IF a < b THEN a ELSE b

(***************************************************************************)
(* Fuzzy matcher.                                                          *)
(***************************************************************************)
\* the substitutions table of create_typo_pattern: the characters of the
\* class that replaces each key ('a' -> '[a@]', ...)
Substitutions(c) ==
    CASE c = "a" -> {"a", "@"}
      [] c = "e" -> {"e", "3"}
      [] c = "i" -> {"i", "1"}
      [] c = "o" -> {"o", "0"}
      [] c = "s" -> {"s", "5", "z"}
      [] c = "l" -> {"l", "1"}
      [] c = "t" -> {"t", "7"}
      [] c = "g" -> {"g", "9"}
      [] c = "b" -> {"b", "6"}
      [] OTHER -> {}

\* One element of the flexible pattern, for one keyword character: the set of
\* characters it accepts and whether it is optional.  A substituted character
\* becomes '[a@]', and the second loop then appends '?' to '[', to every
\* letter and to ']', giving '[?a?@]?': an optional class that also holds a
\* literal '?'.  Any other letter becomes 'x?'; any other character stays as
\* a mandatory literal.
PatternElement(c) ==
    IF Substitutions(c) # {}
    THEN [chars |-> Substitutions(c) \cup {"?"}, opt |-> TRUE]
    ELSE IF IsAlpha(c)
         THEN [chars |-> {c}, opt |-> TRUE]
         ELSE [chars |-> {c}, opt |-> FALSE]

create_typo_pattern(keyword) ==
    [i \in 1..Len(keyword) |-> PatternElement(keyword[i])]

\* the pattern from element i on matches the text at position j
RECURSIVE MatchAt(_, _, _, _)
MatchAt(pat, i, text, j) ==
    IF i > Len(pat) THEN TRUE
    ELSE \/ pat[i].opt /\ MatchAt(pat, i + 1, text, j)
         \/ /\ j <= Len(text)
            /\ text[j] \in pat[i].chars
            /\ MatchAt(pat, i + 1, text, j + 1)

\* bool(re.search(pattern, text))
re_search(pat, text) == \E j \in 1..(Len(text) + 1) : MatchAt(pat, 1, text, j)

\* a typo check that allows one difference whatever the length
simple_typo_check_OneDifference(word1, word2) ==
    IF Abs(Len(word1) - Len(word2)) > 2 THEN FALSE
    ELSE LET min_len == Min(Len(word1), Len(word2))
             differences ==
                 Cardinality({i \in 1..min_len : word1[i] # word2[i]})
                 + Abs(Len(word1) - Len(word2))
         IN differences <= 1

simple_typo_check(word1, word2) ==
    IF Abs(Len(word1) - Len(word2)) > 2 THEN FALSE
    ELSE LET max_len == Max(Len(word1), Len(word2))
             min_len == Min(Len(word1), Len(word2))
             differences ==
                 Cardinality({i \in 1..min_len : word1[i] # word2[i]})
                 + Abs(Len(word1) - Len(word2))
             tolerance == IF max_len > 4 THEN 2 ELSE 1
         IN differences <= tolerance

\* a matcher that accepts a comment only when it is the keyword itself
KeywordMatches_ExactOnly(comment_lower, keyword) ==
    comment_lower = Strip(Lower(keyword))

\* the body of the `for keyword in keywords` loop: the five rules
KeywordMatches(comment_lower, keyword) ==
    LET keyword_lower == Strip(Lower(keyword))
        words_in_comment == Words(comment_lower)
    IN \/ Contains(comment_lower, keyword_lower)
       \/ Contains(NoSpaces(comment_lower), NoSpaces(keyword_lower))
       \/ re_search(create_typo_pattern(keyword_lower), comment_lower)
       \/ \E w \in 1..Len(words_in_comment) :
             LET word == words_in_comment[w]
             IN \/ Contains(word, keyword_lower)
                \/ Contains(keyword_lower, word)
                \/ /\ Len(word) > 2
                   /\ Len(keyword_lower) > 2
                   /\ simple_typo_check(word, keyword_lower)

\* a matcher that tries the first keyword only
fuzzy_keyword_match_FirstOnly(comment_text, keywords) ==
    /\ keywords # <<>>
    /\ KeywordMatches(Lower(comment_text), keywords[1])

fuzzy_keyword_match(comment_text, keywords) ==
    \E k \in 1..Len(keywords) : KeywordMatches(Lower(comment_text), keywords[k])


(***************************************************************************)
(* Bounds of the model and the inputs it explores.                         *)
(***************************************************************************)
\* monitoring cycles explored over the whole run (restarts included)
MaxCycles == 2
\* environment failures explored by the monitoring specification: a failing
\* platform call, a failed scan or resolution, an I/O error writing the
\* ledger, the process being killed
MaxFaults == 1
\* environment failures explored by the executor specification
MaxExecFaults == 3

None == -1

s_info == <<"i","n","f","o">>
s_v2 == <<"v","2">>
s_more_info_please ==
    <<"m","o","r","e"," ","i","n","f","o"," ","p","l","e","a","s","e">>
s_info_too == <<"i","n","f","o"," ","t","o","o">>
s_xyz == <<"x","y","z">>

\* the comments the platform can return: pk, author and text
\* comments 4 to 9 are the comments of post C, all of one user: five that
\* match its keyword and one that does not
CommentIds == 1..9
Comment(c) ==
    CASE c = 1 -> [pk |-> 1, user |-> "u1", text |-> s_more_info_please]
      [] c = 2 -> [pk |-> 2, user |-> "u1", text |-> s_info_too]
      [] c = 3 -> [pk |-> 3, user |-> "u2", text |-> s_xyz]
      [] c = 9 -> [pk |-> 9, user |-> "u3", text |-> s_xyz]
      [] OTHER -> [pk |-> c, user |-> "u3", text |-> s_v2]

\* what media_comments can return for each post
Fetches(post_id) ==
    CASE post_id = "A" -> {<<1, 2>>, <<1, 1>>}
      [] post_id = "B" -> {<<3>>}
      [] OTHER -> {<<4, 5, 6, 7, 8, 9, 4>>}

\* media_pk_from_code, a function of the URL
MediaPk(url) ==
    CASE url = "urlA" -> "igA" [] url = "urlB" -> "igB" [] OTHER -> "igC"

EmptyStats ==
    [replies |-> 0, dms |-> 0, dm_users |-> <<>>, total_comments_found |-> 0,
     comment_users |-> <<>>, total_comments_actual |-> 0]

\* a record of enhanced_posts.json, as add_post creates it
NewPost(id, url, keywords, enabled, ig) ==
    [id |-> id, url |-> url, keywords |-> keywords, message |-> "msg",
     enabled |-> enabled, ig_post_id |-> ig, stats |-> EmptyStats]

PostA == NewPost("A", "urlA", <<s_info>>, TRUE, "igA")
PostB(enabled) == NewPost("B", "urlB", <<s_v2>>, enabled, "")
PostC == NewPost("C", "urlC", <<s_v2>>, TRUE, "igC")

(***************************************************************************)
(* replied.json.  kind is "missing", "corrupt" (not parseable) or "json".  *)
(***************************************************************************)
NoPosts == [u \in {} |-> {}]
LedgerFile(total, posts) == [kind |-> "json", total |-> total, posts |-> posts]
MissingFile == [kind |-> "missing", total |-> {}, posts |-> NoPosts]
CorruptFile == [kind |-> "corrupt", total |-> {}, posts |-> NoPosts]

\* the ledger files the program can start from: none yet, a ledger that
\* holds comment 2, and a shape load_replied_comments repairs (a file without
\* "total")
InitialLedgers ==
    { MissingFile,
      LedgerFile({2}, [u \in {"urlA"} |-> {2}]),
      LedgerFile({}, [u \in {"urlA"} |-> {2}]) }

load_replied_comments_ok(file) == [total |-> file.total, posts |-> file.posts]

load_replied_comments(file) ==
    IF file.kind = "json"
    THEN load_replied_comments_ok(file)
    ELSE [total |-> {}, posts |-> NoPosts]

\* the content save_replied_comments writes
Dump(replied_data) == LedgerFile(replied_data.total, replied_data.posts)

\* a ledger check that consults the global set alone
AlreadyProcessed_GlobalOnly(replied_data, comment_id, post_url) ==
    comment_id \in replied_data.total

\* the test of monitor_posts, lines 656-657
AlreadyProcessed(replied_data, comment_id, post_url) ==
    \/ comment_id \in replied_data.total
    \/ /\ post_url \in DOMAIN replied_data.posts
       /\ comment_id \in replied_data.posts[post_url]

\* lines 646-647: the per-post set is created on first reference
InitTracking(replied_data, post_url) ==
    IF post_url \in DOMAIN replied_data.posts
    THEN replied_data
    ELSE [replied_data EXCEPT
            !.posts = [u \in DOMAIN replied_data.posts \cup {post_url} |->
                         IF u = post_url THEN {} ELSE replied_data.posts[u]]]

\* the comment id is in the global set and in the set of the post
InBothSets(replied_data, comment_id, post_url) ==
    /\ comment_id \in replied_data.total
    /\ post_url \in DOMAIN replied_data.posts
    /\ comment_id \in replied_data.posts[post_url]

\* replied.json can be read back and holds the comment id in both sets
Persisted(file, comment_id, post_url) ==
    file.kind = "json" /\ InBothSets(file, comment_id, post_url)

\* a mark that writes the set of the post alone
MarkProcessed_PostSetOnly(replied_data, comment_id, post_url) ==
    [replied_data EXCEPT !.posts[post_url] = @ \cup {comment_id}]

\* a ledger that, with a comment, marks every comment of the same user
MarkProcessed_PerUser(replied_data, comment_id, post_url) ==
    LET same == {c \in CommentIds :
                    Comment(c).user = Comment(comment_id).user}
    IN [replied_data EXCEPT !.total = @ \cup same,
                            !.posts[post_url] = @ \cup same]

\* lines 671-672
MarkProcessed(replied_data, comment_id, post_url) ==
    [replied_data EXCEPT !.total = @ \cup {comment_id},
                         !.posts[post_url] = @ \cup {comment_id}]

(***************************************************************************)
(* enhanced_posts.json and config.json                                     *)
(***************************************************************************)
AppendNew(list, x) ==
    IF \E i \in 1..Len(list) : list[i] = x THEN list ELSE Append(list, x)

StatsAfter(stats, action_type, username) ==
    CASE action_type = "dm" ->
           [stats EXCEPT !.dms = @ + 1, !.dm_users = AppendNew(@, username)]
      [] action_type = "reply" -> [stats EXCEPT !.replies = @ + 1]
      [] action_type = "comment_found" ->
           [stats EXCEPT !.total_comments_found = @ + 1,
                         !.comment_users = AppendNew(@, username)]
      [] OTHER -> stats

\* update_post_stats: read-modify-write of the posts store
update_post_stats(posts, post_id, action_type, username) ==
    [i \in 1..Len(posts) |->
        IF posts[i].id = post_id
        THEN [posts[i] EXCEPT !.stats = StatsAfter(@, action_type, username)]
        ELSE posts[i]]

\* the first record with the media id (the loop of lines 333-340 breaks)
IndexOfMedia(posts, ig_post_id) ==
    IF \E i \in 1..Len(posts) : posts[i].ig_post_id = ig_post_id
    THEN CHOOSE i \in 1..Len(posts) :
            /\ posts[i].ig_post_id = ig_post_id
            /\ \A j \in 1..(i - 1) : posts[j].ig_post_id # ig_post_id
    ELSE 0

update_total_comment_count(posts, ig_post_id, total_count) ==
    LET k == IndexOfMedia(posts, ig_post_id)
    IN [i \in 1..Len(posts) |->
          IF i = k
          THEN [posts[i] EXCEPT !.stats.total_comments_actual = total_count]
          ELSE posts[i]]

\* the first record with the id (the loop of lines 630-635 breaks)
IndexOfPost(posts, post_id) ==
    IF \E i \in 1..Len(posts) : posts[i].id = post_id
    THEN CHOOSE i \in 1..Len(posts) :
            /\ posts[i].id = post_id
            /\ \A j \in 1..(i - 1) : posts[j].id # post_id
    ELSE 0

\* lines 630-635
StoreResolvedId(posts, post_id, ig_post_id) ==
    LET k == IndexOfPost(posts, post_id)
    IN [i \in 1..Len(posts) |->
          IF i = k THEN [posts[i] EXCEPT !.ig_post_id = ig_post_id]
          ELSE posts[i]]

\* a selection that keeps every post of the store, enabled or not
ActivePosts_All(posts) == posts

ActivePosts(posts) == SelectSeq(posts, LAMBDA p : p.enabled)

\* the projection sync_legacy_config writes to config.json
LegacyProjection(posts) ==
    LET act == ActivePosts(posts)
    IN [i \in 1..Len(act) |->
          [url |-> act[i].url, keywords |-> act[i].keywords,
           message |-> act[i].message, ig_post_id |-> act[i].ig_post_id]]


(***************************************************************************)
(* SafetyDelayManager                                                      *)
(***************************************************************************)
SecondsPerMinute == 60
RecentWindow == 5 * SecondsPerMinute
HistoryWindow == 2 * 60 * SecondsPerMinute
\* timedelta.seconds is the seconds part of the difference, days excluded
SecondsPerDay == 86400

NewSafetyManager ==
    [last_dm_time |-> None, last_reply_time |-> None,
     last_comment_scan_time |-> None, action_history |-> <<>>,
     rate_limit_cooldown |-> None]

base_delays(action_type) ==
    CASE action_type = "dm" -> [lo |-> 45, hi |-> 75]
      [] action_type = "reply" -> [lo |-> 25, hi |-> 40]
      [] action_type = "scan" -> [lo |-> 8, hi |-> 15]
      [] action_type = "between_actions" -> [lo |-> 35, hi |-> 55]
      [] OTHER -> [lo |-> 30, hi |-> 60]

\* tiers that start one action early: more than 2 and more than 0
DelayRange_EarlyTiers(action_type, recent_actions_count) ==
    LET b == base_delays(action_type)
    IN IF recent_actions_count > 2 THEN [lo |-> b.lo + 15, hi |-> b.hi + 25]
       ELSE IF recent_actions_count > 0 THEN [lo |-> b.lo + 8, hi |-> b.hi + 12]
       ELSE b

\* the range get_smart_delay draws from
DelayRange(action_type, recent_actions_count) ==
    LET b == base_delays(action_type)
    IN IF recent_actions_count > 3 THEN [lo |-> b.lo + 15, hi |-> b.hi + 25]
       ELSE IF recent_actions_count > 1 THEN [lo |-> b.lo + 8, hi |-> b.hi + 12]
       ELSE b

\* random.randint(lo, hi): every value it can return
randint(lo, hi) == lo..hi

\* the values of a random draw that the monitoring specification explores:
\* the two ends of the range
Sample(S) ==
    {x \in S : (\A y \in S : x <= y) \/ (\A y \in S : x >= y)}

get_smart_delay(action_type, recent_actions_count) ==
    LET r == DelayRange(action_type, recent_actions_count)
    IN randint(r.lo, r.hi)

\* a cooldown that still holds at the instant of its expiry
should_wait_for_rate_limit_AtExpiry(sm, t) ==
    sm.rate_limit_cooldown # None /\ t <= sm.rate_limit_cooldown

should_wait_for_rate_limit(sm, t) ==
    sm.rate_limit_cooldown # None /\ t < sm.rate_limit_cooldown

\* a cooldown that is only ever extended: the later of the old and the new
\* expiry is kept
set_rate_limit_cooldown_KeepsLater(sm, t, duration_minutes) ==
    [sm EXCEPT !.rate_limit_cooldown =
                  Max(@, t + duration_minutes * SecondsPerMinute)]

set_rate_limit_cooldown(sm, t, duration_minutes) ==
    [sm EXCEPT !.rate_limit_cooldown = t + duration_minutes * SecondsPerMinute]

RecentActions(sm, t) ==
    Cardinality({i \in 1..Len(sm.action_history) :
                    t - sm.action_history[i].time < RecentWindow})

LastActionTime(sm, action_type) ==
    CASE action_type = "dm" -> sm.last_dm_time
      [] action_type = "reply" -> sm.last_reply_time
      [] action_type = "scan" -> sm.last_comment_scan_time
      [] OTHER -> None

\* a wait in which force_wait imposes the whole delay
WaitTime_ForcedFullDelay(sm, t, action_type, force_wait, delay) ==
    LET last_action_time == LastActionTime(sm, action_type)
        time_since_last == (t - last_action_time) % SecondsPerDay
    IN IF force_wait THEN delay
       ELSE IF last_action_time # None /\ time_since_last < delay
       THEN delay - time_since_last
       ELSE 0

\* lines 83-89: the time wait_for_action sleeps
WaitTime(sm, t, action_type, force_wait, delay) ==
    LET last_action_time == LastActionTime(sm, action_type)
        time_since_last == (t - last_action_time) % SecondsPerDay
    IN IF last_action_time # None /\ (time_since_last < delay \/ force_wait)
       THEN Max(0, delay - time_since_last)
       ELSE 0

\* a bookkeeping that appends the action and never prunes the history
RecordAction_NoPruning(sm, t0, t1, action_type) ==
    [last_dm_time |-> IF action_type = "dm" THEN t1 ELSE sm.last_dm_time,
     last_reply_time |->
         IF action_type = "reply" THEN t1 ELSE sm.last_reply_time,
     last_comment_scan_time |->
         IF action_type = "scan" THEN t1 ELSE sm.last_comment_scan_time,
     action_history |-> Append(sm.action_history,
                               [type |-> action_type, time |-> t1]),
     rate_limit_cooldown |-> sm.rate_limit_cooldown]

\* lines 91-107: the manager after an action recorded at time t1, for a call
\* entered at time t0
RecordAction(sm, t0, t1, action_type) ==
    LET appended == Append(sm.action_history,
                           [type |-> action_type, time |-> t1])
        cutoff == t0 - HistoryWindow
        kept == SelectSeq(appended, LAMBDA a : a.time > cutoff)
    IN [last_dm_time |-> IF action_type = "dm" THEN t1 ELSE sm.last_dm_time,
        last_reply_time |->
            IF action_type = "reply" THEN t1 ELSE sm.last_reply_time,
        last_comment_scan_time |->
            IF action_type = "scan" THEN t1 ELSE sm.last_comment_scan_time,
        action_history |-> kept,
        rate_limit_cooldown |-> sm.rate_limit_cooldown]

\* a gate that does not consult the cooldown
wait_for_action_Ungated(sm, t, action_type, force_wait, delay) ==
    LET t1 == t + WaitTime(sm, t, action_type, force_wait, delay)
    IN [ok |-> TRUE, now |-> t1, sm |-> RecordAction(sm, t, t1, action_type)]

\* a gate that refuses during a cooldown but still records the action
wait_for_action_RecordsWhenSkipped(sm, t, action_type, force_wait, delay) ==
    IF should_wait_for_rate_limit(sm, t)
    THEN [ok |-> FALSE, now |-> t, sm |-> RecordAction(sm, t, t, action_type)]
    ELSE LET t1 == t + WaitTime(sm, t, action_type, force_wait, delay)
         IN [ok |-> TRUE, now |-> t1,
             sm |-> RecordAction(sm, t, t1, action_type)]

\* wait_for_action entered at time t with the drawn delay: its return value,
\* the time it returns at and the manager it leaves
wait_for_action(sm, t, action_type, force_wait, delay) ==
    IF should_wait_for_rate_limit(sm, t)
    THEN [ok |-> FALSE, now |-> t, sm |-> sm]
    ELSE LET t1 == t + WaitTime(sm, t, action_type, force_wait, delay)
         IN [ok |-> TRUE, now |-> t1,
             sm |-> RecordAction(sm, t, t1, action_type)]

\* the delays a call of wait_for_action can draw
WaitDelays(sm, t, action_type) ==
    get_smart_delay(action_type, RecentActions(sm, t))

(***************************************************************************)
(* Platform errors and their classification by the executors.  An error    *)
(* is the exception class and the marker phrases found in its message.     *)
(***************************************************************************)
Err(class, phrases) == [class |-> class, phrases |-> phrases]

Errors ==
    { Err("ClientError", {"rate limit"}),
      Err("LoginRequired", {"login_required"}),
      Err("ClientError", {"login_required"}),
      Err("ClientError", {"not found"}),
      Err("ClientError", {"spam"}),
      Err("ClientError", {}),
      Err("ClientError", {"rate limit", "not found"}),
      Err("ClientError", {"rate limit", "login_required"}),
      Err("ClientError", {"rate limit", "spam"}),
      Err("ClientError", {"not found", "spam"}),
      Err("ClientError", {"login_required", "spam"}) }

\* what a platform call can do: return a truthy value, return a falsy one,
\* or raise
Ok == [class |-> "ok", phrases |-> {}]
Falsy == [class |-> "falsy", phrases |-> {}]
Outcomes == {Ok, Falsy} \cup Errors

HasAny(e, phrases) == e.phrases \cap phrases # {}

\* a classification of send_dm errors without the rate-limit branch
DmErrorClass_NoRateLimit(e) ==
    IF HasAny(e, {"login_required"}) THEN "session_expired"
    ELSE IF HasAny(e, {"spam", "blocked"}) THEN "restricted"
    ELSE "other"

\* a classification of send_dm errors without the session-expired branch
DmErrorClass_NoSessionExpired(e) ==
    IF HasAny(e, {"rate limit", "too many requests"}) THEN "rate_limit"
    ELSE IF HasAny(e, {"spam", "blocked"}) THEN "restricted"
    ELSE "other"

\* send_dm, lines 391-408
DmErrorClass(e) ==
    IF HasAny(e, {"rate limit", "too many requests"}) THEN "rate_limit"
    ELSE IF HasAny(e, {"login_required"}) THEN "session_expired"
    ELSE IF HasAny(e, {"spam", "blocked"}) THEN "restricted"
    ELSE "other"

\* a classification of reply errors without the content-unavailable branch
ReplyErrorClass_NoUnavailable(e) ==
    IF e.class = "LoginRequired" THEN "session_expired"
    ELSE IF HasAny(e, {"rate limit", "too many requests"}) THEN "rate_limit"
    ELSE IF HasAny(e, {"spam", "blocked"}) THEN "restricted"
    ELSE "other"

\* a classification of reply errors without the account-restricted branch
ReplyErrorClass_NoRestricted(e) ==
    IF e.class = "LoginRequired" THEN "session_expired"
    ELSE IF HasAny(e, {"rate limit", "too many requests"}) THEN "rate_limit"
    ELSE IF HasAny(e, {"no longer available", "not found"}) THEN "unavailable"
    ELSE "other"

\* reply_to_comment, lines 455-480
ReplyErrorClass(e) ==
    IF e.class = "LoginRequired" THEN "session_expired"
    ELSE IF HasAny(e, {"rate limit", "too many requests"}) THEN "rate_limit"
    ELSE IF HasAny(e, {"no longer available", "not found"}) THEN "unavailable"
    ELSE IF HasAny(e, {"spam", "blocked"}) THEN "restricted"
    ELSE "other"

max_retries == 3

DmRateLimitCooldown == 15
DmRestrictedCooldown == 30
DmRateLimitBackoff == 60
ReplyRateLimitCooldown == 10
ReplyRestrictedCooldown == 20
ReplyRateLimitBackoff == 30
CycleSleep == 180
IdleSleep == 30
ScanAmount == 30
ScanRateLimitSleep == 5

\* a retry loop of send_dm that sleeps the short backoff after the last
\* attempt too
DmAttemptResult_SleepsAfterLast(o, attempt, r) ==
    LET last == (attempt + 1 >= max_retries)
        step(done, result, sleep, cooldown, refresh) ==
            [done |-> done, result |-> result, sleep |-> sleep,
             cooldown |-> cooldown, refresh |-> refresh]
    IN IF o = Ok THEN step(TRUE, TRUE, 0, 0, FALSE)
       ELSE IF o = Falsy THEN step(last, FALSE, 0, 0, FALSE)
       ELSE CASE DmErrorClass(o) = "rate_limit" ->
                   step(last, FALSE, DmRateLimitBackoff * (attempt + 1),
                        DmRateLimitCooldown, FALSE)
              [] DmErrorClass(o) = "session_expired" ->
                   step(TRUE, FALSE, 0, 0, TRUE)
              [] DmErrorClass(o) = "restricted" ->
                   step(TRUE, FALSE, 0, DmRestrictedCooldown, FALSE)
              [] OTHER ->
                   step(last, FALSE, r * (attempt + 1), 0, FALSE)

\* One attempt of the retry loop of send_dm (lines 376-413), made at time t
\* as attempt number `attempt` (from 0) with the platform's outcome `o` and
\* the random draw `r`.  done: the operation returns; result: what it
\* returns; sleep: the time slept after the attempt; cooldown: the minutes of
\* cooldown set (0: none); refresh: the session is refreshed.
DmAttemptResult(o, attempt, r) ==
    LET last == (attempt + 1 >= max_retries)
        step(done, result, sleep, cooldown, refresh) ==
            [done |-> done, result |-> result, sleep |-> sleep,
             cooldown |-> cooldown, refresh |-> refresh]
    IN IF o = Ok THEN step(TRUE, TRUE, 0, 0, FALSE)
       ELSE IF o = Falsy THEN step(last, FALSE, 0, 0, FALSE)
       ELSE CASE DmErrorClass(o) = "rate_limit" ->
                   step(last, FALSE, DmRateLimitBackoff * (attempt + 1),
                        DmRateLimitCooldown, FALSE)
              [] DmErrorClass(o) = "session_expired" ->
                   step(TRUE, FALSE, 0, 0, TRUE)
              [] DmErrorClass(o) = "restricted" ->
                   step(TRUE, FALSE, 0, DmRestrictedCooldown, FALSE)
              [] OTHER ->
                   step(last, FALSE,
                        IF attempt < max_retries - 1
                        THEN r * (attempt + 1) ELSE 0,
                        0, FALSE)

\* the random draw of a failed send_dm attempt: randint(5, 15)
DmRetryDraws == randint(5, 15)

\* the random draw of a failed reply attempt: randint(3, 8) after a falsy
\* result, randint(5, 12) after an exception
ReplyRetryDraws(o) == IF o = Falsy THEN randint(3, 8) ELSE randint(5, 12)

\* a retry loop of reply_to_comment that goes on until an attempt succeeds
ReplyAttemptResult_NoCap(o, attempt, r) ==
    [done |-> (o = Ok), result |-> (o = Ok), sleep |-> 0, cooldown |-> 0,
     refresh |-> FALSE]

\* One attempt of the retry loop of reply_to_comment (lines 440-484).
ReplyAttemptResult(o, attempt, r) ==
    LET last == (attempt + 1 >= max_retries)
        step(done, result, sleep, cooldown, refresh) ==
            [done |-> done, result |-> result, sleep |-> sleep,
             cooldown |-> cooldown, refresh |-> refresh]
    IN IF o = Ok THEN step(TRUE, TRUE, 0, 0, FALSE)
       ELSE IF o = Falsy
       THEN step(last, FALSE, IF attempt < max_retries - 1 THEN r ELSE 0,
                 0, FALSE)
       ELSE CASE ReplyErrorClass(o) = "session_expired" ->
                   step(TRUE, FALSE, 0, 0, TRUE)
              [] ReplyErrorClass(o) = "rate_limit" ->
                   step(last, FALSE, ReplyRateLimitBackoff * (attempt + 1),
                        ReplyRateLimitCooldown, FALSE)
              [] ReplyErrorClass(o) = "unavailable" ->
                   step(TRUE, FALSE, 0, 0, FALSE)
              [] ReplyErrorClass(o) = "restricted" ->
                   step(TRUE, FALSE, 0, ReplyRestrictedCooldown, FALSE)
              [] OTHER ->
                   step(last, FALSE,
                        IF attempt < max_retries - 1
                        THEN r * (attempt + 1) ELSE 0,
                        0, FALSE)

\* a save that reports success and writes nothing
save_replied_comments_NoWrite(file, replied_data, outcome) == file

\* save_replied_comments: open("replied.json", "w") truncates the file and
\* json.dump then writes it.  outcome "ok": written; "open_error": open
\* raised, the file is left as it was; "write_error": the write stopped after
\* the truncation (an I/O error or the end of the process), the file is left
\* unparseable.
save_replied_comments(file, replied_data, outcome) ==
    CASE outcome = "ok" -> Dump(replied_data)
      [] outcome = "open_error" -> file
      [] OTHER -> CorruptFile

SaveOutcomes == {"ok", "open_error", "write_error"}

(***************************************************************************)
(* State                                                                   *)
(***************************************************************************)
VARIABLES
    now,              \* the clock, in seconds since the process started
    posts_file,       \* enhanced_posts.json
    replied_file,     \* replied.json
    config_file,      \* the "posts" list of config.json
    sm,               \* the SafetyDelayManager
    main_client,      \* the action-capable session is loaded
    monitor_client,   \* the read-only session is loaded
    processed_users,  \* the users recorded by a successful DM
    pc,               \* the position of the monitoring thread
    enhanced_posts,   \* locals of monitor_posts
    active_posts,
    replied_data,
    pi,               \* index of `post` in active_posts
    ig_post_id,
    comments,
    ci,               \* index of `comment` in comments
    new_matches,
    attempt,          \* loop counter of the running executor operation
    cycles,           \* cycles started
    faults,           \* environment failures so far
    crashes,          \* how many of them were the process being killed
    monitoring,       \* self.monitoring, the flag the loop tests
    loaded_posts,     \* the list a statistics update has loaded, not yet saved
    pm,               \* the PostManager operation the bot thread is in
    limits,           \* the cycles, failures and crashes a run explores
    dm_invocations,   \* history: send_dm operations per comment id
    reply_invocations,\* history: reply_to_comment operations per comment id
    cycle_log,        \* history: the events of the current cycle
    cycle,            \* history: facts about the current and the last cycle
    op                \* history: the current (or last) executor operation

files == <<posts_file, replied_file, config_file>>
sessions == <<main_client, monitor_client, processed_users>>
locals == <<enhanced_posts, active_posts, replied_data, pi, ig_post_id,
            comments, ci, new_matches, attempt>>
budget == <<cycles, faults, crashes, limits>>
history == <<dm_invocations, reply_invocations, cycle_log, cycle, op>>
rmw == <<loaded_posts, pm>>
vars == <<now, files, sm, sessions, monitoring, rmw, pc, locals, budget,
          history>>

PostIds == {"A", "B", "C"}
NoFetch == [done |-> FALSE, list |-> <<>>]
NoOp ==
    [kind |-> "none", cid |-> 0, calls |-> <<>>, cooldowns |-> <<>>,
     sleeps |-> <<>>, refreshes |-> 0, waited |-> FALSE, result |-> "none"]
\* no PostManager operation is in progress
NoPm ==
    [pc |-> "idle", kind |-> "none", post_id |-> "", posts |-> <<>>,
     result |-> FALSE, count |-> 0]
NewOp(kind, cid) == [NoOp EXCEPT !.kind = kind, !.cid = cid,
                                 !.result = "running"]
\* the side effects a cycle can have: executor operations, the ledger file
\* and the statistics of the posts store
EffectsOf(dm, reply, ledger, posts) ==
    [dm |-> dm, reply |-> reply, ledger |-> ledger,
     stats |-> [i \in 1..Len(posts) |-> posts[i].stats]]
NoEffects ==
    EffectsOf([c \in CommentIds |-> 0], [c \in CommentIds |-> 0],
              MissingFile, <<>>)
NoCycle ==
    [done |-> FALSE, clean |-> FALSE, active |-> <<>>, visited |-> {},
     ledger0 |-> [total |-> {}, posts |-> NoPosts], cooldown0 |-> FALSE,
     effects0 |-> NoEffects, fetched |-> [p \in PostIds |-> NoFetch],
     prev_ok |-> FALSE, prev_fetched |-> [p \in PostIds |-> NoFetch]]

\* the state of the monitoring process when it starts
FreshLocals ==
    /\ enhanced_posts = <<>>
    /\ active_posts = <<>>
    /\ replied_data = [total |-> {}, posts |-> NoPosts]
    /\ pi = 0
    /\ ig_post_id = ""
    /\ comments = <<>>
    /\ ci = 0
    /\ new_matches = 0
    /\ attempt = 0

\* the posts stores the program starts from: post A and post B, enabled or
\* not; the id of post B is not resolved yet
InitialStores ==
    { <<PostA, PostB(TRUE)>>,
      <<PostA, PostB(FALSE)>>,
      <<[PostA EXCEPT !.enabled = FALSE], PostB(FALSE)>> }

\* the process has started: start_monitoring has loaded the sessions
Started(store, ledger, main, monitor, lim) ==
    /\ now = 0
    /\ posts_file = store
    /\ replied_file = ledger
    /\ config_file = LegacyProjection(store)
    /\ sm = NewSafetyManager
    /\ main_client = main
    /\ monitor_client = monitor
    /\ processed_users = {}
    /\ monitoring = TRUE
    /\ loaded_posts = <<>>
    /\ pm = NoPm
    /\ pc = "cycle_start"
    /\ FreshLocals
    /\ cycles = 0
    /\ faults = 0
    /\ crashes = 0
    /\ limits = lim
    /\ dm_invocations = [c \in CommentIds |-> 0]
    /\ reply_invocations = [c \in CommentIds |-> 0]
    /\ cycle_log = <<>>
    /\ cycle = NoCycle
    /\ op = NoOp

Init ==
    \E store \in InitialStores, ledger \in InitialLedgers, main \in BOOLEAN :
       Started(store, ledger, main, TRUE,
               [cycles |-> MaxCycles, faults |-> MaxFaults, crash |-> TRUE])

Effects == EffectsOf(dm_invocations, reply_invocations, replied_file, posts_file)

Logged(ev, cid, url) == Append(cycle_log, [ev |-> ev, cid |-> cid, url |-> url])

post == active_posts[pi]
comment == Comment(comments[ci])

Take(list, n) == SubSeq(list, 1, Min(n, Len(list)))

(***************************************************************************)
(* The monitoring loop, monitor_posts                                      *)
(***************************************************************************)
\* lines 608-620: load the posts store and the ledger, or idle 30 s
LoadPosts ==
    /\ pc = "cycle_start"
    /\ monitoring
    /\ cycles < limits.cycles
    /\ cycles' = cycles + 1
    /\ LET loaded == posts_file
           act == ActivePosts(loaded)
       IN IF act = <<>>
          THEN /\ now' = now + IdleSleep
               /\ enhanced_posts' = loaded
               /\ active_posts' = act
               /\ cycle' = [NoCycle EXCEPT !.effects0 = Effects]
               /\ UNCHANGED <<pc, replied_data, pi>>
          ELSE /\ now' = now
               /\ enhanced_posts' = loaded
               /\ active_posts' = act
               /\ replied_data' = load_replied_comments(replied_file)
               /\ pi' = 1
               /\ pc' = "post"
               /\ cycle' =
                    [NoCycle EXCEPT
                       !.clean = TRUE,
                       !.active = [i \in 1..Len(act) |-> act[i].id],
                       !.ledger0 = load_replied_comments(replied_file),
                       !.cooldown0 = should_wait_for_rate_limit(sm, now),
                       !.effects0 = Effects,
                       !.prev_ok = cycle.done /\ cycle.clean,
                       !.prev_fetched = cycle.fetched]
    /\ cycle_log' = <<>>
    /\ UNCHANGED <<files, sm, sessions, ig_post_id, comments, ci, new_matches,
                   attempt, faults, crashes, limits, monitoring, rmw, dm_invocations,
                   reply_invocations, op>>

\* an exception that leaves the loop over the posts
NextPost_AbortsCycle ==
    /\ pi' = pi + 1
    /\ pc' = "cycle_end"

\* the position after the body of `for post in active_posts`
NextPost ==
    /\ pi' = pi + 1
    /\ pc' = IF pi + 1 > Len(active_posts) THEN "cycle_end" ELSE "post"

ScanErrors == {"LoginRequired", "rate limit", "other"}

\* what media_comments can do for a post: return a list or raise
ScanOutcomes(post_id) ==
    {[err |-> "", list |-> f] : f \in Fetches(post_id)}
    \cup {[err |-> e, list |-> <<>>] : e \in ScanErrors}

\* lines 624-649: resolve the post id, scan the comments, create the
\* per-post tracking set.  resolved: get_post_id_from_url returned an id;
\* fetched: what the platform's media_comments did.
BeginPost ==
    /\ pc = "post"
    /\ \E resolved \in BOOLEAN, fetched \in ScanOutcomes(post.id) :
          LET need == post.ig_post_id = ""
              id == IF ~need THEN post.ig_post_id
                    ELSE IF resolved /\ monitor_client THEN MediaPk(post.url)
                    ELSE ""
              stored == IF need /\ id # ""
                        THEN StoreResolvedId(posts_file, post.id, id)
                        ELSE posts_file
              scanned == id # "" /\ monitor_client
              failed == fetched.err # ""
              nfaults == (IF need /\ monitor_client /\ ~resolved THEN 1 ELSE 0)
                         + (IF scanned /\ failed THEN 1 ELSE 0)
              list == IF scanned /\ ~failed
                      THEN Take(fetched.list, ScanAmount)
                      ELSE <<>>
          IN /\ faults + nfaults <= limits.faults
             /\ faults' = faults + nfaults
             /\ need \/ resolved
             /\ scanned \/ fetched.err = "other"
             /\ ig_post_id' = id
             /\ enhanced_posts' = IF need /\ id # "" THEN stored
                                  ELSE enhanced_posts
             /\ IF id = ""
                THEN /\ NextPost
                     /\ posts_file' = stored
                     /\ now' = now
                     /\ cycle' = [cycle EXCEPT !.visited = @ \cup {post.id}]
                     /\ UNCHANGED <<replied_data, comments, ci, new_matches>>
                ELSE /\ posts_file' =
                          IF scanned /\ ~failed
                          THEN update_total_comment_count(stored, id,
                                                          Len(fetched.list))
                          ELSE stored
                     /\ now' = IF scanned /\ fetched.err = "rate limit"
                               THEN now + ScanRateLimitSleep ELSE now
                     /\ comments' = list
                     /\ replied_data' = InitTracking(replied_data, post.url)
                     /\ new_matches' = 0
                     /\ ci' = 1
                     /\ pc' = "comment"
                     /\ pi' = pi
                     /\ cycle' = [cycle EXCEPT
                                     !.visited = @ \cup {post.id},
                                     !.fetched[post.id] =
                                        [done |-> TRUE, list |-> list]]
    /\ UNCHANGED <<replied_file, config_file, sm, sessions, active_posts,
                   attempt, cycles, crashes, limits, monitoring, rmw, dm_invocations,
                   reply_invocations, cycle_log, op>>


in_ledger == AlreadyProcessed(replied_data, comment.pk, post.url)

matches == fuzzy_keyword_match(comment.text, post.keywords)

\* lines 651-658: a comment that is in the ledger is skipped
SkipProcessed ==
    /\ pc = "comment"
    /\ ci <= Len(comments)
    /\ in_ledger
    /\ ci' = ci + 1
    /\ UNCHANGED <<now, files, sm, sessions, pc, enhanced_posts, active_posts,
                   replied_data, pi, ig_post_id, comments, new_matches,
                   attempt, budget, monitoring, rmw, history>>

\* lines 660-667: a new comment that matches no keyword is counted only
ObserveComment ==
    /\ pc = "comment"
    /\ ci <= Len(comments)
    /\ ~in_ledger
    /\ ~matches
    /\ posts_file' = update_post_stats(posts_file, post.id, "comment_found",
                                       comment.user)
    /\ ci' = ci + 1
    /\ UNCHANGED <<now, replied_file, config_file, sm, sessions, pc,
                   enhanced_posts, active_posts, replied_data, pi, ig_post_id,
                   comments, new_matches, attempt, budget, monitoring, rmw, history>>

\* lines 660-672: a new comment that matches is counted and marked
MatchComment ==
    /\ pc = "comment"
    /\ ci <= Len(comments)
    /\ ~in_ledger
    /\ matches
    /\ posts_file' = update_post_stats(posts_file, post.id, "comment_found",
                                       comment.user)
    /\ replied_data' = MarkProcessed(replied_data, comment.pk, post.url)
    /\ cycle_log' =
          Logged(IF InBothSets(replied_data', comment.pk, post.url)
                 THEN "mark" ELSE "not_marked", comment.pk, post.url)
    /\ pc' = "persist"
    /\ UNCHANGED <<now, replied_file, config_file, sm, sessions,
                   enhanced_posts, active_posts, pi, ig_post_id, comments, ci,
                   new_matches, attempt, budget, monitoring, rmw, dm_invocations,
                   reply_invocations, cycle, op>>

\* the end of `for comment in comments`
FinishPost ==
    /\ pc = "comment"
    /\ ci > Len(comments)
    /\ NextPost
    /\ UNCHANGED <<now, files, sm, sessions, enhanced_posts, active_posts,
                   replied_data, ig_post_id, comments, ci, new_matches,
                   attempt, budget, monitoring, rmw, history>>

\* line 675: the ledger is saved; an exception ends the work on this post
\* (lines 710-712)
PersistMark ==
    /\ pc = "persist"
    /\ \E outcome \in SaveOutcomes :
          /\ outcome # "ok" => faults < limits.faults
          /\ faults' = IF outcome = "ok" THEN faults ELSE faults + 1
          /\ replied_file' =
                save_replied_comments(replied_file, replied_data, outcome)
          /\ cycle_log' =
                Logged(IF Persisted(replied_file', comment.pk, post.url)
                       THEN "persist" ELSE "persist_failed",
                       comment.pk, post.url)
          /\ IF outcome = "ok"
             THEN /\ pc' = "send_dm"
                  /\ UNCHANGED <<pi, cycle>>
             ELSE /\ NextPost
                  /\ cycle' = [cycle EXCEPT !.clean = FALSE]
    /\ UNCHANGED <<now, posts_file, config_file, sm, sessions, enhanced_posts,
                   active_posts, replied_data, ig_post_id, comments, ci,
                   new_matches, attempt, cycles, crashes, limits, monitoring, rmw, dm_invocations,
                   reply_invocations, op>>


(***************************************************************************)
(* The executors, send_dm and reply_to_comment                             *)
(***************************************************************************)
\* the history of one platform call: when it was made, what the platform
\* did, and whether a cooldown was set and unexpired at that time
CallRecord(o) ==
    [at |-> now, outcome |-> o,
     in_cooldown |-> sm.rate_limit_cooldown # None
                     /\ now < sm.rate_limit_cooldown]

\* the operation's history after an attempt with outcome o and result res
OpAfterAttempt(o, res) ==
    [op EXCEPT
       !.calls = Append(@, CallRecord(o)),
       !.cooldowns = IF res.cooldown > 0
                     THEN Append(@, [attempt |-> attempt + 1,
                                     minutes |-> res.cooldown,
                                     expiry |-> now + res.cooldown
                                                      * SecondsPerMinute])
                     ELSE @,
       !.sleeps = IF res.sleep > 0
                  THEN Append(@, [attempt |-> attempt + 1, time |-> res.sleep])
                  ELSE @,
       !.refreshes = IF res.refresh THEN @ + 1 ELSE @,
       !.result = IF ~res.done THEN "running"
                  ELSE IF res.result THEN "true" ELSE "false"]

\* a failing platform call is explored within the budget of failures
MayFail(o) == o # Ok => faults < limits.faults
FaultsAfter(o) == IF o # Ok THEN faults + 1 ELSE faults

\* send_dm, lines 345-371: the safety delay, the session checks.
\* auth: what account_info does; delay: the draw of get_smart_delay.
SendDm ==
    /\ pc = "send_dm"
    /\ dm_invocations' = [dm_invocations EXCEPT ![comment.pk] = @ + 1]
    /\ cycle_log' = Logged("send_dm", comment.pk, post.url)
    /\ \E delay \in Sample(WaitDelays(sm, now, "dm")), auth \in BOOLEAN :
          LET w == wait_for_action(sm, now, "dm", FALSE, delay)
              checked == w.ok /\ main_client
              o == NewOp("dm", comment.pk)
          IN /\ checked \/ auth
             /\ ~auth => faults < limits.faults
             /\ faults' = IF auth THEN faults ELSE faults + 1
             /\ sm' = w.sm
             /\ now' = w.now
             /\ IF checked /\ auth
                THEN /\ pc' = "dm_attempt"
                     /\ attempt' = 0
                     /\ op' = [o EXCEPT !.waited = TRUE]
                ELSE /\ pc' = "between"
                     /\ attempt' = attempt
                     /\ op' = [o EXCEPT !.waited = w.ok, !.result = "false",
                                        !.refreshes = IF checked THEN 1 ELSE 0]
    /\ UNCHANGED <<files, sessions, enhanced_posts, active_posts, replied_data,
                   pi, ig_post_id, comments, ci, new_matches, cycles, crashes,
                   limits, monitoring, rmw, reply_invocations, cycle>>

\* send_dm, lines 375-416: one pass of the retry loop, and lines 681-685
\* when the operation returns
DmAttempt ==
    /\ pc = "dm_attempt"
    /\ \E o \in Outcomes, r \in Sample(DmRetryDraws) :
          LET res == DmAttemptResult(o, attempt, r)
          IN /\ MayFail(o)
             /\ faults' = FaultsAfter(o)
             /\ op' = OpAfterAttempt(o, res)
             /\ sm' = IF res.cooldown > 0
                      THEN set_rate_limit_cooldown(sm, now, res.cooldown)
                      ELSE sm
             /\ now' = now + res.sleep
             /\ processed_users' = IF o = Ok
                                   THEN processed_users \cup {comment.user}
                                   ELSE processed_users
             /\ IF res.done
                THEN /\ pc' = "between"
                     /\ attempt' = attempt
                     /\ posts_file' =
                          IF res.result
                          THEN update_post_stats(posts_file, post.id, "dm",
                                                 comment.user)
                          ELSE posts_file
                ELSE /\ pc' = pc
                     /\ attempt' = attempt + 1
                     /\ posts_file' = posts_file
    /\ UNCHANGED <<replied_file, config_file, main_client, monitor_client,
                   enhanced_posts, active_posts, replied_data, pi, ig_post_id,
                   comments, ci, new_matches, cycles, crashes, limits, monitoring, rmw, dm_invocations,
                   reply_invocations, cycle_log, cycle>>

\* a loop in which a send_dm that fails raises: the exception handler of
\* lines 710-712 takes the thread to the next post
BetweenActions_FailedDmRaises ==
    /\ pc = "between"
    /\ IF op.result = "true"
       THEN /\ \E delay \in Sample(WaitDelays(sm, now, "between_actions")) :
                  LET w == wait_for_action(sm, now, "between_actions", TRUE,
                                           delay)
                  IN /\ sm' = w.sm
                     /\ now' = w.now
            /\ pc' = "reply"
            /\ pi' = pi
       ELSE /\ NextPost
            /\ UNCHANGED <<now, sm>>
    /\ UNCHANGED <<files, sessions, enhanced_posts, active_posts,
                   replied_data, ig_post_id, comments, ci, new_matches,
                   attempt, budget, monitoring, rmw, history>>

\* a loop that replies only when the DM was sent
BetweenActions_OnlyAfterDm ==
    /\ pc = "between"
    /\ \E delay \in Sample(WaitDelays(sm, now, "between_actions")) :
          LET w == wait_for_action(sm, now, "between_actions", TRUE, delay)
          IN /\ sm' = w.sm
             /\ now' = w.now
    /\ pc' = IF op.result = "true" THEN "reply" ELSE "after_reply"
    /\ UNCHANGED <<files, sessions, locals, budget, monitoring, rmw, history>>

\* line 688: the forced delay between the DM and the reply
BetweenActions ==
    /\ pc = "between"
    /\ \E delay \in Sample(WaitDelays(sm, now, "between_actions")) :
          LET w == wait_for_action(sm, now, "between_actions", TRUE, delay)
          IN /\ sm' = w.sm
             /\ now' = w.now
    /\ pc' = "reply"
    /\ UNCHANGED <<files, sessions, locals, budget, monitoring, rmw, history>>

\* a reply_to_comment that falls back on the monitoring session
ReplyToComment_MonitorFallback ==
    /\ pc = "reply"
    /\ reply_invocations' = [reply_invocations EXCEPT ![comment.pk] = @ + 1]
    /\ cycle_log' = Logged("reply_to_comment", comment.pk, post.url)
    /\ \E delay \in Sample(WaitDelays(sm, now, "reply")) :
          LET w == wait_for_action(sm, now, "reply", FALSE, delay)
              checked == w.ok /\ (main_client \/ monitor_client)
              o == NewOp("reply", comment.pk)
          IN /\ sm' = w.sm
             /\ now' = w.now
             /\ IF checked
                THEN /\ pc' = "reply_attempt"
                     /\ attempt' = 0
                     /\ op' = [o EXCEPT !.waited = TRUE]
                ELSE /\ pc' = "after_reply"
                     /\ attempt' = attempt
                     /\ op' = [o EXCEPT !.waited = w.ok, !.result = "false"]
    /\ UNCHANGED <<files, sessions, enhanced_posts, active_posts, replied_data,
                   pi, ig_post_id, comments, ci, new_matches, budget, monitoring, rmw,
                   dm_invocations, cycle>>

\* reply_to_comment, lines 424-436
ReplyToComment ==
    /\ pc = "reply"
    /\ reply_invocations' = [reply_invocations EXCEPT ![comment.pk] = @ + 1]
    /\ cycle_log' = Logged("reply_to_comment", comment.pk, post.url)
    /\ \E delay \in Sample(WaitDelays(sm, now, "reply")) :
          LET w == wait_for_action(sm, now, "reply", FALSE, delay)
              checked == w.ok /\ main_client
              o == NewOp("reply", comment.pk)
          IN /\ sm' = w.sm
             /\ now' = w.now
             /\ IF checked
                THEN /\ pc' = "reply_attempt"
                     /\ attempt' = 0
                     /\ op' = [o EXCEPT !.waited = TRUE]
                ELSE /\ pc' = "after_reply"
                     /\ attempt' = attempt
                     /\ op' = [o EXCEPT !.waited = w.ok, !.result = "false"]
    /\ UNCHANGED <<files, sessions, enhanced_posts, active_posts, replied_data,
                   pi, ig_post_id, comments, ci, new_matches, budget, monitoring, rmw,
                   dm_invocations, cycle>>

\* reply_to_comment, lines 440-487: one pass of the retry loop, and lines
\* 693-697 when the operation returns
ReplyAttempt ==
    /\ pc = "reply_attempt"
    /\ \E o \in Outcomes :
       \E r \in Sample(ReplyRetryDraws(o)) :
          LET res == ReplyAttemptResult(o, attempt, r)
          IN /\ MayFail(o)
             /\ faults' = FaultsAfter(o)
             /\ op' = OpAfterAttempt(o, res)
             /\ sm' = IF res.cooldown > 0
                      THEN set_rate_limit_cooldown(sm, now, res.cooldown)
                      ELSE sm
             /\ now' = now + res.sleep
             /\ IF res.done
                THEN /\ pc' = "after_reply"
                     /\ attempt' = attempt
                     /\ posts_file' =
                          IF res.result
                          THEN update_post_stats(posts_file, post.id, "reply",
                                                 "")
                          ELSE posts_file
                ELSE /\ pc' = pc
                     /\ attempt' = attempt + 1
                     /\ posts_file' = posts_file
    /\ UNCHANGED <<replied_file, config_file, sessions, enhanced_posts,
                   active_posts, replied_data, pi, ig_post_id, comments, ci,
                   new_matches, cycles, crashes, limits, monitoring, rmw, dm_invocations,
                   reply_invocations, cycle_log, cycle>>

\* a progressive delay that is applied after the first match too
progressive_delay_FromFirst(matches_before) ==
    get_smart_delay("between_actions", matches_before + 1)

\* lines 700-703: what the thread sleeps after a match, new_matches being
\* the matches of the post handled before this one
progressive_delay(matches_before) ==
    IF matches_before > 0
    THEN get_smart_delay("between_actions", matches_before)
    ELSE {0}

\* lines 699-705: the progressive delay, then the next comment
AfterReply ==
    /\ pc = "after_reply"
    /\ \E d \in Sample(progressive_delay(new_matches)) : now' = now + d
    /\ new_matches' = new_matches + 1
    /\ ci' = ci + 1
    /\ pc' = "comment"
    /\ UNCHANGED <<files, sm, sessions, enhanced_posts, active_posts,
                   replied_data, pi, ig_post_id, comments, attempt, budget, monitoring, rmw,
                   history>>

\* lines 714-725: the ledger is saved, the legacy config synchronised and the
\* thread sleeps 3 minutes; an exception skips to the sleep of line 725
EndCycle ==
    /\ pc = "cycle_end"
    /\ \E outcome \in SaveOutcomes :
          /\ outcome # "ok" => faults < limits.faults
          /\ faults' = IF outcome = "ok" THEN faults ELSE faults + 1
          /\ replied_file' =
                save_replied_comments(replied_file, replied_data, outcome)
          /\ config_file' = IF outcome = "ok"
                            THEN LegacyProjection(enhanced_posts)
                            ELSE config_file
          /\ cycle' = [cycle EXCEPT !.done = TRUE,
                                    !.clean = @ /\ outcome = "ok"]
    /\ now' = now + CycleSleep
    /\ pc' = "cycle_start"
    /\ UNCHANGED <<posts_file, sm, sessions, locals, cycles, crashes, limits, monitoring, rmw,
                   dm_invocations, reply_invocations, cycle_log, op>>

(***************************************************************************)
(* The end of the process and its restart                                  *)
(***************************************************************************)
\* everything the process holds in memory is lost
ProcessEnds ==
    /\ pc' = "crashed"
    /\ crashes' = crashes + 1
    /\ faults' = faults + 1
    /\ sm' = NewSafetyManager
    /\ main_client' = FALSE
    /\ monitor_client' = FALSE
    /\ processed_users' = {}
    /\ enhanced_posts' = <<>>
    /\ active_posts' = <<>>
    /\ replied_data' = [total |-> {}, posts |-> NoPosts]
    /\ pi' = 0
    /\ ig_post_id' = ""
    /\ comments' = <<>>
    /\ ci' = 0
    /\ new_matches' = 0
    /\ attempt' = 0
    /\ now' = 0
    /\ cycle_log' = <<>>
    /\ cycle' = NoCycle
    /\ op' = NoOp
    /\ monitoring' = FALSE
    /\ loaded_posts' = <<>>
    /\ pm' = NoPm
    /\ UNCHANGED <<posts_file, config_file, cycles, limits, dm_invocations,
                   reply_invocations>>

\* the process is killed between two steps of the monitoring thread
Crash ==
    /\ pc \notin {"crashed", "stopped"}
    /\ limits.crash
    /\ faults < limits.faults
    /\ ProcessEnds
    /\ UNCHANGED replied_file

\* the process is killed inside save_replied_comments, after the truncation
CrashDuringSave ==
    /\ pc \in {"persist", "cycle_end"}
    /\ limits.crash
    /\ faults < limits.faults
    /\ ProcessEnds
    /\ replied_file' =
          save_replied_comments(replied_file, replied_data, "write_error")

\* start_monitoring, lines 748-761: load_sessions, then the loop runs unless
\* no session could be loaded
Restart ==
    /\ pc = "crashed"
    /\ main_client' \in BOOLEAN
    /\ monitor_client' \in BOOLEAN
    /\ pc' = IF main_client' \/ monitor_client'
             THEN "cycle_start" ELSE "stopped"
    /\ monitoring' = (main_client' \/ monitor_client')
    /\ UNCHANGED <<now, files, sm, processed_users, rmw, locals, budget,
                   history>>

Next ==
    \/ LoadPosts
    \/ BeginPost
    \/ SkipProcessed
    \/ ObserveComment
    \/ MatchComment
    \/ FinishPost
    \/ PersistMark
    \/ SendDm
    \/ DmAttempt
    \/ BetweenActions
    \/ ReplyToComment
    \/ ReplyAttempt
    \/ AfterReply
    \/ EndCycle
    \/ Crash
    \/ CrashDuringSave
    \/ Restart

Spec == Init /\ [][Next]_vars


(***************************************************************************)
(* The executor specification: one cycle of a process that is not killed,  *)
(* over a ledger that holds comment 2, so that one comment is acted upon;  *)
(* the platform calls of its send_dm and reply_to_comment may fail in      *)
(* every way, attempt after attempt.                                       *)
(***************************************************************************)
ExecInit ==
    \E main \in BOOLEAN :
       Started(<<PostA, PostB(TRUE)>>,
               LedgerFile({2}, [u \in {"urlA"} |-> {2}]), main, TRUE,
               [cycles |-> 1, faults |-> MaxExecFaults, crash |-> FALSE])

ExecNext ==
    \/ LoadPosts
    \/ BeginPost
    \/ SkipProcessed
    \/ ObserveComment
    \/ MatchComment
    \/ FinishPost
    \/ PersistMark
    \/ SendDm
    \/ DmAttempt
    \/ BetweenActions
    \/ ReplyToComment
    \/ ReplyAttempt
    \/ AfterReply
    \/ EndCycle

ExecSpec == ExecInit /\ [][ExecNext]_vars


(***************************************************************************)
(* The cooldown specification: the SafetyDelayManager alone, with a clock  *)
(* that advances second by second or minute by minute, and                 *)
(* set_rate_limit_cooldown called at the first instants of the run.        *)
(***************************************************************************)
\* the last instant of the clock
MaxClock == 1000
\* the last instant at which set_rate_limit_cooldown is called
MaxSetTime == 2

\* a process that runs no monitoring cycle
NoBudget == [cycles |-> 0, faults |-> 0, crash |-> FALSE]

\* the durations of the calls: the default and the one of send_dm
CooldownMinutes == {ReplyRateLimitCooldown, DmRateLimitCooldown}

CooldownInit == Started(<<>>, MissingFile, FALSE, FALSE, NoBudget)

\* a call of set_rate_limit_cooldown(duration_minutes)
SetCooldown ==
    /\ now <= MaxSetTime
    /\ \E m \in CooldownMinutes :
          /\ sm' = set_rate_limit_cooldown(sm, now, m)
          /\ op' = [kind |-> "set_rate_limit_cooldown", minutes |-> m,
                    at |-> now, before |-> sm.rate_limit_cooldown]
    /\ UNCHANGED <<now, files, sessions, monitoring, rmw, pc, locals, budget,
                   dm_invocations, reply_invocations, cycle_log, cycle>>

\* time passes
ClockTick ==
    /\ \E d \in {1, SecondsPerMinute} :
          /\ now + d <= MaxClock
          /\ now' = now + d
    /\ UNCHANGED <<files, sm, sessions, monitoring, rmw, pc, locals, budget,
                   history>>

CooldownNext == SetCooldown \/ ClockTick

CooldownSpec == CooldownInit /\ [][CooldownNext]_vars


(***************************************************************************)
(* The delay specification: calls of get_smart_delay for every action type *)
(* and every count of recent actions up to MaxRecentActions, with every    *)
(* value random.randint can return.                                        *)
(***************************************************************************)
MaxRecentActions == 5

\* the four categories of base_delays and one that is not in it
ActionTypes == {"dm", "reply", "scan", "between_actions", "unknown"}

DelayInit == Started(<<>>, MissingFile, FALSE, FALSE, NoBudget)

\* a call of get_smart_delay(action_type, recent_actions_count)
GetSmartDelay ==
    /\ \E action_type \in ActionTypes, count \in 0..MaxRecentActions :
          \E d \in get_smart_delay(action_type, count) :
             op' = [kind |-> "get_smart_delay", action_type |-> action_type,
                    recent_actions_count |-> count, result |-> d]
    /\ UNCHANGED <<now, files, sm, sessions, monitoring, rmw, pc, locals, budget,
                   dm_invocations, reply_invocations, cycle_log, cycle>>

DelayNext == GetSmartDelay

DelaySpec == DelayInit /\ [][DelayNext]_vars


(***************************************************************************)
(* The matcher specification: calls of fuzzy_keyword_match on the comments *)
(* and keyword lists below.                                                *)
(***************************************************************************)
s_link == <<"l","i","n","k">>
s_price == <<"p","r","i","c","e">>
s_hi == <<"h","i">>
s_link_padded == <<" ","L","i","n","k"," ">>
s_99 == <<"9","9">>
s_send_the_ling ==
    <<"P","l","e","a","s","e"," ","s","e","n","d"," ","t","h","e"," ","l","i","n","g","!">>
s_pric3_check == <<"p","r","i","c","3"," ","c","h","e","c","k">>
s_hii_there == <<"h","i","i"," ","t","h","e","r","e">>
s_send_link_pls == <<"S","e","n","d"," ","L","I","N","K"," ","p","l","s">>
s_v2_now == <<"V","2"," ","n","o","w">>
s_12 == <<"1","2">>

\* comment texts: the examples of the specification, texts in upper case,
\* a text of digits and the empty text
MatchTexts ==
    { s_xyz, s_more_info_please, s_info_too, s_send_the_ling, s_pric3_check,
      s_hii_there, s_send_link_pls, s_v2_now, s_12, <<>> }

\* keyword lists: one keyword, a keyword to trim and lowercase, a keyword
\* of digits, two keywords, none
MatchKeywords ==
    { <<s_link>>, <<s_price>>, <<s_hi>>, <<s_info>>, <<s_v2>>,
      <<s_link_padded>>, <<s_99>>, <<s_v2, s_hi>>, <<s_v2, s_99>>,
      <<s_99, s_link>>, <<>> }

MatchInit == Started(<<>>, MissingFile, FALSE, FALSE, NoBudget)

\* a call of fuzzy_keyword_match(comment_text, keywords)
FuzzyKeywordMatch ==
    /\ \E comment_text \in MatchTexts, keywords \in MatchKeywords :
          op' = [kind |-> "fuzzy_keyword_match",
                 comment_text |-> comment_text, keywords |-> keywords,
                 result |-> fuzzy_keyword_match(comment_text, keywords)]
    /\ UNCHANGED <<now, files, sm, sessions, monitoring, rmw, pc, locals, budget,
                   dm_invocations, reply_invocations, cycle_log, cycle>>

MatchNext == FuzzyKeywordMatch

MatchSpec == MatchInit /\ [][MatchNext]_vars


(***************************************************************************)
(* The loop specification: the monitoring thread of a process that is not  *)
(* killed, with the failures of the monitoring specification, and          *)
(* stop_monitoring called at any moment.  The thread is scheduled fairly:  *)
(* each of its steps is a call or a sleep that returns.                    *)
(***************************************************************************)
MaxLoopCycles == 2
MaxLoopFaults == 1

LoopInit ==
    \E store \in { s \in InitialStores : s[2].enabled = s[1].enabled } :
       Started(store, LedgerFile({2}, [u \in {"urlA"} |-> {2}]), TRUE, TRUE,
               [cycles |-> MaxLoopCycles, faults |-> MaxLoopFaults,
                crash |-> FALSE])

\* stop_monitoring, lines 774-777, called from another thread
StopMonitoring ==
    /\ monitoring
    /\ pc # "stopped"
    /\ monitoring' = FALSE
    /\ UNCHANGED <<now, files, sm, sessions, rmw, pc, locals, budget,
                   history>>

\* a loop that also ends after a cycle in which an exception was raised
LoopExit_AfterError ==
    /\ pc = "cycle_start"
    /\ ~monitoring \/ (cycle.done /\ ~cycle.clean)
    /\ pc' = "stopped"
    /\ UNCHANGED <<now, files, sm, sessions, monitoring, rmw, locals, budget,
                   history>>

\* line 606: `while self.monitoring` is false, monitor_posts returns
LoopExit ==
    /\ pc = "cycle_start"
    /\ ~monitoring
    /\ pc' = "stopped"
    /\ UNCHANGED <<now, files, sm, sessions, monitoring, rmw, locals, budget,
                   history>>

\* the steps of the monitoring thread
MonitorStep == ExecNext \/ LoopExit

LoopNext == MonitorStep \/ StopMonitoring

LoopSpec == LoopInit /\ [][LoopNext]_vars /\ WF_vars(MonitorStep)


(***************************************************************************)
(* The store specification: the monitoring thread and the PostManager of   *)
(* the Telegram bot, which runs in the main thread of the same process and *)
(* writes the same two files.  Each handler of the bot is one step.        *)
(***************************************************************************)
MaxStoreCycles == 2
MaxStoreFaults == 1

\* PostManager.sync_legacy: the entries have no "ig_post_id" key
BotProjection(posts) ==
    LET act == ActivePosts(posts)
    IN [i \in 1..Len(act) |->
          [url |-> act[i].url, keywords |-> act[i].keywords,
           message |-> act[i].message]]

\* PostManager.update_post with {"enabled": not enabled}
toggle_post(posts, post_id) ==
    LET k == IndexOfPost(posts, post_id)
    IN [i \in 1..Len(posts) |->
          IF i = k THEN [posts[i] EXCEPT !.enabled = ~@] ELSE posts[i]]

\* PostManager.delete_post
delete_post(posts, post_id) == SelectSeq(posts, LAMBDA p : p.id # post_id)

StoreInit ==
    Started(<<PostA, PostB(TRUE)>>, LedgerFile({2}, [u \in {"urlA"} |-> {2}]),
            TRUE, TRUE,
            [cycles |-> MaxStoreCycles, faults |-> MaxStoreFaults,
             crash |-> FALSE])

\* the operator toggles a post: toggle_post, update_post, save_posts and
\* sync_legacy
TogglePost ==
    \E post_id \in PostIds :
       /\ IndexOfPost(posts_file, post_id) # 0
       /\ posts_file' = toggle_post(posts_file, post_id)
       /\ config_file' = BotProjection(posts_file')
       /\ UNCHANGED <<now, replied_file, sm, sessions, monitoring, rmw, pc,
                      locals, budget, history>>

\* the operator deletes a post: delete_post, save_posts and sync_legacy
DeletePost ==
    \E post_id \in PostIds :
       /\ IndexOfPost(posts_file, post_id) # 0
       /\ posts_file' = delete_post(posts_file, post_id)
       /\ config_file' = BotProjection(posts_file')
       /\ UNCHANGED <<now, replied_file, sm, sessions, monitoring, rmw, pc,
                      locals, budget, history>>

StoreNext == ExecNext \/ TogglePost \/ DeletePost

StoreSpec == StoreInit /\ [][StoreNext]_vars


(***************************************************************************)
(* The wait specification: the SafetyDelayManager alone, with calls of     *)
(* wait_for_action for every action type, the two ends of the range of    *)
(* get_smart_delay, and instants that are seconds, hours and days apart.   *)
(***************************************************************************)
\* the number of calls of wait_for_action explored
MaxWaitCalls == 2
\* the number of days the clock runs over
MaxWaitDays == 1

\* the instants the clock jumps to: a few seconds after the start, two
\* hours later and whole days later
WaitInstants ==
    {day * SecondsPerDay + base + s :
        day \in 0..MaxWaitDays, base \in {0, HistoryWindow},
        s \in {0, 50}}

WaitInit == Started(<<>>, MissingFile, FALSE, FALSE, NoBudget)

\* a call of wait_for_action(action_type, force_wait)
WaitForAction ==
    /\ Len(cycle_log) < MaxWaitCalls
    /\ cycle_log' = Append(cycle_log, [ev |-> "wait_for_action"])
    /\ \E action_type \in ActionTypes, force_wait \in BOOLEAN :
       \E delay \in Sample(WaitDelays(sm, now, action_type)) :
          LET w == wait_for_action(sm, now, action_type, force_wait, delay)
          IN /\ sm' = w.sm
             /\ now' = w.now
             /\ op' = [kind |-> "wait_for_action", action_type |-> action_type,
                       force_wait |-> force_wait, delay |-> delay,
                       at |-> now, before |-> sm, result |-> w.ok]
    /\ UNCHANGED <<files, sessions, monitoring, rmw, pc, locals, budget,
                   dm_invocations, reply_invocations, cycle>>

\* time passes until one of the instants; no call is in progress
Elapse ==
    /\ \E t \in WaitInstants :
          /\ t > now
          /\ now' = t
    /\ op' = NoOp
    /\ UNCHANGED <<files, sm, sessions, monitoring, rmw, pc, locals, budget,
                   dm_invocations, reply_invocations, cycle_log, cycle>>

WaitNext == WaitForAction \/ SetCooldown \/ Elapse

WaitSpec == WaitInit /\ [][WaitNext]_vars


(***************************************************************************)
(* The typo specification: calls of simple_typo_check on every pair of     *)
(* words of at most MaxWordLen letters over a two-letter alphabet.         *)
(***************************************************************************)
MaxWordLen == 5

TypoWords == UNION {[1..n -> {"a", "b"}] : n \in 0..MaxWordLen}

TypoInit == Started(<<>>, MissingFile, FALSE, FALSE, NoBudget)

\* a call of simple_typo_check(word1, word2), and the call with the two
\* arguments swapped
SimpleTypoCheck ==
    /\ op = NoOp
    /\ \E word1 \in TypoWords, word2 \in TypoWords :
          op' = [kind |-> "simple_typo_check", word1 |-> word1,
                 word2 |-> word2,
                 result |-> simple_typo_check(word1, word2),
                 swapped |-> simple_typo_check(word2, word1)]
    /\ UNCHANGED <<now, files, sm, sessions, monitoring, rmw, pc, locals, budget,
                   dm_invocations, reply_invocations, cycle_log, cycle>>

TypoNext == SimpleTypoCheck

TypoSpec == TypoInit /\ [][TypoNext]_vars


(***************************************************************************)
(* The race specification: one cycle of the monitoring thread without      *)
(* platform failures, and the PostManager of the bot thread, at the        *)
(* granularity of the reads and writes of enhanced_posts.json.  Neither    *)
(* thread takes a lock: a PostManager operation is a load and, later, a    *)
(* save of the modified list; so is update_post_stats for an observed      *)
(* comment.  The other writes of the monitoring thread are single steps.   *)
(***************************************************************************)
MaxPmOps == 1

RaceInit ==
    Started(<<PostA, PostB(TRUE)>>, LedgerFile({2}, [u \in {"urlA"} |-> {2}]),
            TRUE, TRUE, [cycles |-> 1, faults |-> 0, crash |-> FALSE])

\* update_post_stats, line 497: load_enhanced_posts for a comment that
\* matches no keyword (lines 660-667)
ObserveLoad ==
    /\ pc = "comment"
    /\ ci <= Len(comments)
    /\ ~in_ledger
    /\ ~matches
    /\ loaded_posts' = posts_file
    /\ pc' = "stats_save"
    /\ UNCHANGED <<now, files, sm, sessions, monitoring, pm, locals, budget,
                   history>>

\* update_post_stats, lines 498-517: the list loaded is modified and saved
\* when it holds the post
ObserveSave ==
    /\ pc = "stats_save"
    /\ posts_file' =
          IF IndexOfPost(loaded_posts, post.id) # 0
          THEN update_post_stats(loaded_posts, post.id, "comment_found",
                                 comment.user)
          ELSE posts_file
    /\ loaded_posts' = <<>>
    /\ ci' = ci + 1
    /\ pc' = "comment"
    /\ UNCHANGED <<now, replied_file, config_file, sm, sessions, monitoring,
                   pm, enhanced_posts, active_posts, replied_data, pi,
                   ig_post_id, comments, new_matches, attempt, budget,
                   history>>

\* the operator toggles or deletes a post of the store: load_posts of
\* update_post (line 105) or of delete_post (line 116)
PmLoad ==
    /\ pm.pc = "idle"
    /\ pm.count < MaxPmOps
    /\ \E kind \in {"toggle", "delete"}, post_id \in PostIds :
          LET k == IndexOfPost(posts_file, post_id)
          IN /\ k # 0
             /\ pm' = [pc |-> "loaded", kind |-> kind, post_id |-> post_id,
                       posts |-> posts_file,
                       result |-> IF kind = "toggle"
                                  THEN ~posts_file[k].enabled ELSE TRUE,
                       count |-> pm.count]
    /\ UNCHANGED <<now, files, sm, sessions, monitoring, loaded_posts, pc,
                   locals, budget, history>>

\* save_posts and sync_legacy of the operation (lines 109-110, 118-119);
\* pm keeps the operation that has returned and what it returned
PmSave ==
    /\ pm.pc = "loaded"
    /\ posts_file' = IF pm.kind = "toggle"
                     THEN toggle_post(pm.posts, pm.post_id)
                     ELSE delete_post(pm.posts, pm.post_id)
    /\ config_file' = BotProjection(posts_file')
    /\ pm' = [pm EXCEPT !.pc = "idle", !.posts = <<>>, !.count = @ + 1]
    /\ UNCHANGED <<now, replied_file, sm, sessions, monitoring, loaded_posts,
                   pc, locals, budget, history>>

RaceNext ==
    \/ LoadPosts
    \/ BeginPost
    \/ SkipProcessed
    \/ ObserveLoad
    \/ ObserveSave
    \/ MatchComment
    \/ FinishPost
    \/ PersistMark
    \/ SendDm
    \/ DmAttempt
    \/ BetweenActions
    \/ ReplyToComment
    \/ ReplyAttempt
    \/ AfterReply
    \/ EndCycle
    \/ PmLoad
    \/ PmSave

RaceSpec == RaceInit /\ [][RaceNext]_vars


(***************************************************************************)
(* The progressive specification: one cycle, without failures, over a post *)
(* with five comments that match its keyword, so that the count of matches *)
(* handled reaches every tier of the progressive delay.                    *)
(***************************************************************************)
ProgressiveInit ==
    Started(<<PostC>>, MissingFile, TRUE, TRUE,
            [cycles |-> 1, faults |-> 0, crash |-> FALSE])

ProgressiveSpec == ProgressiveInit /\ [][ExecNext]_vars


(***************************************************************************)
(* Properties                                                              *)
(***************************************************************************)
\* the ledger holds the id, globally or for the post
LedgerHas(ledger, cid, url) ==
    \/ cid \in ledger.total
    \/ \E u \in DOMAIN ledger.posts : u = url /\ cid \in ledger.posts[u]

IsAct(e) == e.ev \in {"send_dm", "reply_to_comment"}

\* the events of the current cycle about one comment id
EventsOf(cid) ==
    LET mine == SelectSeq(cycle_log, LAMBDA e : e.cid = cid)
    IN [i \in 1..Len(mine) |-> mine[i].ev]

IsPrefix(a, b) == Len(a) <= Len(b) /\ SubSeq(b, 1, Len(a)) = a

Count(ev) == Cardinality({i \in 1..Len(cycle_log) : cycle_log[i].ev = ev})

\* C1: in every cycle, no send_dm and no reply_to_comment is invoked for a
\* comment whose id was in the ledger loaded at the start of the cycle
\* (in the global set or in the set of the post being scanned), nor a second
\* time for an id that was acted upon earlier in the same cycle.
C1_LedgeredNeverActed ==
    \A i \in 1..Len(cycle_log) :
       IsAct(cycle_log[i]) =>
          /\ ~LedgerHas(cycle.ledger0, cycle_log[i].cid, cycle_log[i].url)
          /\ \A j \in 1..(i - 1) :
                ~(cycle_log[j].ev = cycle_log[i].ev
                  /\ cycle_log[j].cid = cycle_log[i].cid)

\* a cycle has scanned comments 1 and 2 of post A with comment 2 in the
\* per-post set only, has acted on comment 1 and has reached its end
C1_Witness ==
    /\ pc = "cycle_end"
    /\ cycle.fetched["A"].list = <<1, 2>>
    /\ 2 \notin cycle.ledger0.total
    /\ LedgerHas(cycle.ledger0, 2, "urlA")
    /\ EventsOf(1) = <<"mark", "persist", "send_dm", "reply_to_comment">>
    /\ EventsOf(2) = <<>>

\* C2: over the whole life of the system, restarts included, each comment id
\* causes at most one send_dm and at most one reply_to_comment operation.
C2_AtMostOnce ==
    \A c \in CommentIds : dm_invocations[c] <= 1 /\ reply_invocations[c] <= 1

\* C3: for every matching comment the events of a cycle are, in this order:
\* the id is added to both ledger sets, the ledger is persisted, send_dm is
\* invoked, reply_to_comment is invoked; when the ledger could not be
\* persisted neither operation is invoked.
C3_PersistBeforeActing ==
    \A c \in CommentIds :
       \/ IsPrefix(EventsOf(c),
                   <<"mark", "persist", "send_dm", "reply_to_comment">>)
       \/ EventsOf(c) = <<"mark", "persist_failed">>

\* a comment went through the four events in a cycle in which the ledger of
\* another comment could not be persisted
C3_Witness ==
    /\ EventsOf(1) = <<"mark", "persist", "send_dm", "reply_to_comment">>
    /\ EventsOf(2) = <<"mark", "persist_failed">>

\* C4: a cycle that fetches what the cycle before it fetched, over the ledger
\* that cycle recorded, has no side effect: no executor operation, no change
\* of the ledger file, no change of the statistics.
C4_ReplayHasNoEffect ==
    ( /\ pc = "cycle_start"
      /\ cycle.done
      /\ cycle.clean
      /\ cycle.prev_ok
      /\ cycle.fetched = cycle.prev_fetched
      /\ \E p \in PostIds : cycle.fetched[p].list # <<>> )
    => Effects = cycle.effects0

\* C5: a comment id that is in the global set or in a per-post set of
\* replied.json is in that set after every step.
C5_LedgerMonotonic ==
    [][ \A c \in CommentIds :
           /\ c \in replied_file.total => c \in replied_file'.total
           /\ \A u \in DOMAIN replied_file.posts :
                 c \in replied_file.posts[u] =>
                    /\ u \in DOMAIN replied_file'.posts
                    /\ c \in replied_file'.posts[u] ]_vars

\* the premise of C6: the cycle that has just ended was run for post A alone
\* (keyword "info"), fetched comments 1 ("more info please") and 2 ("info
\* too"), comment 2 was in the ledger and comment 1 was not, no cooldown was
\* active and the ledger could be written
C6_Scenario ==
    /\ pc = "cycle_start"
    /\ cycle.done
    /\ cycle.clean
    /\ cycle.active = <<"A">>
    /\ cycle.fetched["A"] = [done |-> TRUE, list |-> <<1, 2>>]
    /\ LedgerHas(cycle.ledger0, 2, "urlA")
    /\ ~LedgerHas(cycle.ledger0, 1, "urlA")
    /\ ~cycle.cooldown0

\* C6: in that scenario the cycle has made exactly one send_dm and one
\* reply_to_comment invocation, both for comment 1, and the persisted ledger
\* holds both comment ids.
C6_EndToEnd ==
    C6_Scenario =>
       /\ Count("send_dm") = 1
       /\ Count("reply_to_comment") = 1
       /\ EventsOf(1) = <<"mark", "persist", "send_dm", "reply_to_comment">>
       /\ replied_file.kind = "json"
       /\ LedgerHas(replied_file, 1, "urlA")
       /\ LedgerHas(replied_file, 2, "urlA")

C6_Witness == C6_Scenario /\ main_client /\ op.result = "true"


IsRateLimit(o) == o.phrases \cap {"rate limit", "too many requests"} # {}

IsUnavailable(o) == o.phrases \cap {"not found", "no longer available"} # {}

Failed(o) == o.class # "ok"

\* C7 as stated: no platform call is made at a time when a cooldown is set
\* and unexpired.
C7_NoCallDuringCooldown ==
    \A i \in 1..Len(op.calls) : ~op.calls[i].in_cooldown

\* C7: no operation makes its first platform call while a cooldown is set
\* and unexpired; a call made during a cooldown is a later attempt of the
\* operation whose own earlier attempt set that cooldown.
C7_CooldownBlocksNewOperations ==
    \A i \in 1..Len(op.calls) :
       op.calls[i].in_cooldown =>
          /\ i > 1
          /\ \E k \in 1..Len(op.cooldowns) : op.cooldowns[k].attempt < i

\* a reply_to_comment entered while the cooldown of the preceding send_dm was
\* unexpired has returned failure without any platform call
C7_Witness ==
    /\ op.kind = "reply"
    /\ op.result = "false"
    /\ op.calls = <<>>
    /\ sm.rate_limit_cooldown # None
    /\ now < sm.rate_limit_cooldown

\* C8: when the first attempt of send_dm or reply_to_comment raises a
\* rate-limit error, a cooldown of 15 minutes (send_dm) or 10 minutes (reply)
\* from that moment is set, and the operation does not end before it has
\* made a second attempt.
C8_RateLimitSetsCooldownAndRetries ==
    ( /\ Len(op.calls) >= 1
      /\ IsRateLimit(op.calls[1].outcome) )
    => /\ \E k \in 1..Len(op.cooldowns) :
             /\ op.cooldowns[k].attempt = 1
             /\ op.cooldowns[k].minutes = IF op.kind = "dm" THEN 15 ELSE 10
             /\ op.cooldowns[k].expiry =
                   op.calls[1].at + (IF op.kind = "dm" THEN 900 ELSE 600)
       /\ op.result # "running" => Len(op.calls) >= 2

\* a send_dm whose first attempt was rate limited has succeeded at the second
C8_Witness ==
    /\ op.kind = "dm"
    /\ Len(op.calls) = 2
    /\ IsRateLimit(op.calls[1].outcome)
    /\ op.result = "true"
    /\ sm.rate_limit_cooldown = op.calls[1].at + 900

\* C9 as stated: an error of reply_to_comment whose message says "not found"
\* or "no longer available" ends the operation with failure: it is the last
\* call, and the operation sets no cooldown.
C9_UnavailableAborts ==
    op.kind = "reply" =>
       \A i \in 1..Len(op.calls) :
          IsUnavailable(op.calls[i].outcome) =>
             /\ i = Len(op.calls)
             /\ op.result = "false"
             /\ op.cooldowns = <<>>

\* C9: an error of reply_to_comment whose message says "not found" or "no
\* longer available" and is not a rate-limit message ends the operation with
\* failure: it is the last call, and that attempt sets no cooldown.
C9_UnavailableAbortsUnlessRateLimit ==
    op.kind = "reply" =>
       \A i \in 1..Len(op.calls) :
          ( /\ IsUnavailable(op.calls[i].outcome)
            /\ ~IsRateLimit(op.calls[i].outcome)
            /\ op.calls[i].outcome.class # "LoginRequired" ) =>
             /\ i = Len(op.calls)
             /\ op.result = "false"
             /\ \A k \in 1..Len(op.cooldowns) : op.cooldowns[k].attempt # i

\* the second attempt of a reply met "not found" and the operation ended
C9_Witness ==
    /\ op.kind = "reply"
    /\ Len(op.calls) = 2
    /\ IsUnavailable(op.calls[2].outcome)
    /\ ~IsRateLimit(op.calls[2].outcome)
    /\ op.result = "false"

\* C10: an operation makes at most 3 platform attempts, is over once the
\* third is made, returns success exactly when an attempt returned a truthy
\* result, and returns failure when 3 attempts have failed.
C10_BoundedRetries ==
    /\ Len(op.calls) <= 3
    /\ Len(op.calls) = 3 => op.result # "running"
    /\ op.result = "true" <=>
          \E i \in 1..Len(op.calls) : op.calls[i].outcome = Ok
    /\ ( /\ Len(op.calls) = 3
         /\ \A i \in 1..3 : Failed(op.calls[i].outcome) )
       => op.result = "false"

\* three attempts of one operation have failed and it has returned failure
C10_Witness ==
    /\ Len(op.calls) = 3
    /\ \A i \in 1..3 : Failed(op.calls[i].outcome)
    /\ op.result = "false"

\* C11: after set_rate_limit_cooldown(10) at instant t0, and until the next
\* call of set_rate_limit_cooldown, should_wait_for_rate_limit is true at
\* every instant before t0 + 600 s and false at t0 + 600 s and later.
C11_CooldownLastsTenMinutes ==
    ( /\ op.kind = "set_rate_limit_cooldown"
      /\ op.minutes = 10 )
    => ( should_wait_for_rate_limit(sm, now) <=> now < op.at + 600 )

\* the instant at which a cooldown of 10 minutes set at instant 2 expires
C11_Witness ==
    /\ op.kind = "set_rate_limit_cooldown"
    /\ op.minutes = 10
    /\ op.at = 2
    /\ now = 602
    /\ ~should_wait_for_rate_limit(sm, now)

\* the base range of a category, as the specification states it
BaseRange(action_type) ==
    CASE action_type = "dm" -> <<45, 75>>
      [] action_type = "reply" -> <<25, 40>>
      [] action_type = "scan" -> <<8, 15>>
      [] action_type = "between_actions" -> <<35, 55>>
      [] OTHER -> <<30, 60>>

\* C12: get_smart_delay returns an integer of the base range of the category
\* when the count of recent actions is at most 1, of [min + 8, max + 12]
\* when it is 2 or 3, and of [min + 15, max + 25] when it is more than 3.
C12_DelayInTierRange ==
    op.kind = "get_smart_delay" =>
       LET b == BaseRange(op.action_type)
           n == op.recent_actions_count
           lo == IF n <= 1 THEN b[1] ELSE IF n <= 3 THEN b[1] + 8
                 ELSE b[1] + 15
           hi == IF n <= 1 THEN b[2] ELSE IF n <= 3 THEN b[2] + 12
                 ELSE b[2] + 25
       IN op.result \in Int /\ lo <= op.result /\ op.result <= hi

\* get_smart_delay("dm", 4) has returned 100, the top of the escalated tier
C12_Witness ==
    /\ op.kind = "get_smart_delay"
    /\ op.action_type = "dm"
    /\ op.recent_actions_count = 4
    /\ op.result = 100

Called(comment_text, keywords) ==
    /\ op.kind = "fuzzy_keyword_match"
    /\ op.comment_text = comment_text
    /\ op.keywords = keywords

\* a occurs in b
SubstringOf(a, b) ==
    \E i \in 0..Len(b) :
       /\ i + Len(a) <= Len(b)
       /\ \A k \in 1..Len(a) : b[i + k] = a[k]

\* C13: fuzzy_keyword_match("xyz", ["link"]) is false.
C13_UnrelatedCommentNotMatched ==
    Called(s_xyz, <<s_link>>) => ~op.result

\* C14: fuzzy_keyword_match is true for ("Please send the ling!", ["link"]),
\* ("pric3 check", ["price"]) and ("hii there", ["hi"]), and whenever a
\* keyword, lowercased and trimmed, is a substring of the lowercased comment.
C14_PositiveExamplesAndSubstring ==
    /\ Called(s_send_the_ling, <<s_link>>) => op.result
    /\ Called(s_pric3_check, <<s_price>>) => op.result
    /\ Called(s_hii_there, <<s_hi>>) => op.result
    /\ op.kind = "fuzzy_keyword_match" =>
          ( ( \E k \in 1..Len(op.keywords) :
                 SubstringOf(Strip(Lower(op.keywords[k])),
                             Lower(op.comment_text)) )
            => op.result )

\* the second keyword of the list is a substring of the comment, the first
\* is unrelated to it
C14_Witness ==
    /\ Called(s_hii_there, <<s_v2, s_hi>>)
    /\ op.result

CooldownActive == sm.rate_limit_cooldown # None /\ now < sm.rate_limit_cooldown

\* C15: when no cooldown is active, at least 35 seconds pass between the
\* return of send_dm and the call of reply_to_comment for the same comment.
C15_ForcedDelayBeforeReply ==
    [][ ( /\ pc = "between"
          /\ pc' = "reply"
          /\ ~CooldownActive )
        => now' >= now + 35 ]_vars

\* C16: when the loop over the posts of a cycle ends, the body of the loop
\* has been entered for every enabled post, whatever exception the posts
\* before it raised.
C16_LaterPostsProcessed ==
    pc = "cycle_end" =>
       \A i \in 1..Len(active_posts) : active_posts[i].id \in cycle.visited

\* saving the ledger raised while post A was processed, and post B was
\* scanned afterwards in the same cycle
C16_Witness ==
    /\ pc = "cycle_end"
    /\ EventsOf(1) = <<"mark", "persist_failed">>
    /\ cycle.active = <<"A", "B">>
    /\ cycle.fetched["B"] = [done |-> TRUE, list |-> <<3>>]

\* C17: the loop has ended only if stop_monitoring cleared the flag; and
\* whatever exceptions are raised in the cycles that run, each next cycle
\* eventually starts, up to the last one of the bound, unless
\* stop_monitoring clears the flag.
C17_LoopResumesAfterError ==
    /\ [](pc = "stopped" => ~monitoring)
    /\ <>(cycles = MaxLoopCycles \/ ~monitoring)

\* a second cycle has started after a cycle in which an exception was
\* raised, the flag still being true
C17_Witness ==
    /\ monitoring
    /\ cycles = 2
    /\ pc = "post"
    /\ cycle.prev_fetched["A"].done
    /\ ~cycle.prev_ok

\* the (url, keywords, message, resolved id) projection of the enabled
\* items of a store
MirrorOf(posts) ==
    LET on == SelectSeq(posts, LAMBDA p : p.enabled)
    IN [i \in 1..Len(on) |->
          [url |-> on[i].url, keywords |-> on[i].keywords,
           message |-> on[i].message, ig_post_id |-> on[i].ig_post_id]]

\* the entries of a mirror, an entry without "ig_post_id" read as one whose
\* id is not resolved
ResolvedIdsOf(config) ==
    [i \in 1..Len(config) |->
        [url |-> config[i].url, keywords |-> config[i].keywords,
         message |-> config[i].message,
         ig_post_id |-> IF "ig_post_id" \in DOMAIN config[i]
                        THEN config[i].ig_post_id ELSE ""]]

\* C18: whenever the monitoring loop is between two cycles, so that every
\* mutation of the store by the loop and by the operator has been followed
\* by its synchronisation, the legacy config mirror is the (url, keywords,
\* message, resolved id) projection of the enabled items of the store.
C18_MirrorIsProjection ==
    pc = "cycle_start" => ResolvedIdsOf(config_file) = MirrorOf(posts_file)

\* the number of send_dm invocations of the current cycle for one comment id
DmsFor(cid) ==
    Cardinality({i \in 1..Len(cycle_log) :
                    cycle_log[i].ev = "send_dm" /\ cycle_log[i].cid = cid})

C20_CooldownSkipsWithoutEffect ==
    [][ ( /\ pc \in {"send_dm", "between", "reply"}
          /\ CooldownActive
          /\ pc' \notin {pc, "crashed"} )
        => /\ now' = now
           /\ sm' = sm
           /\ pc # "between" =>
                 /\ op'.cid = comment.pk
                 /\ op'.calls = <<>>
                 /\ ~op'.waited
                 /\ op'.result = "false"
                 /\ pc' \notin {"dm_attempt", "reply_attempt"} ]_vars

\* send_dm was called during a cooldown and has returned False without
\* waiting and without a platform call
C20_Witness ==
    /\ CooldownActive
    /\ pc = "between"
    /\ op.kind = "dm"
    /\ ~op.waited
    /\ op.calls = <<>>
    /\ op.result = "false"
    /\ main_client

\* C21: without a main session, send_dm and reply_to_comment have returned
\* False as soon as they are entered, without any platform call, and no
\* cooldown is set.
C21_NoSessionNoAttempt ==
    (~main_client /\ op.kind \in {"dm", "reply"}) =>
       /\ op.calls = <<>>
       /\ op.cooldowns = <<>>
       /\ op.refreshes = 0
       /\ op.result = "false"
       /\ sm.rate_limit_cooldown = None

\* reply_to_comment has passed the safety delay and returned False for want
\* of a main session
C21_Witness ==
    /\ ~main_client
    /\ pc = "after_reply"
    /\ op.kind = "reply"
    /\ op.waited
    /\ op.result = "false"
    /\ dm_invocations[op.cid] = 1

\* an error that says the session has expired, by its class or its message
IsSessionExpired(o) ==
    o.class = "LoginRequired" \/ "login_required" \in o.phrases

\* what follows an attempt i that ends the operation on an expired session:
\* it is the last call, the operation has failed, the session was refreshed
\* once and that attempt set no cooldown
AbortedWithRefresh(i) ==
    /\ i = Len(op.calls)
    /\ op.result = "false"
    /\ op.refreshes = 1
    /\ \A k \in 1..Len(op.cooldowns) : op.cooldowns[k].attempt # i

\* C22 as stated: a session-expired error on any attempt of send_dm or
\* reply_to_comment refreshes the main session once and ends the operation
\* with failure, without a further attempt and without a cooldown.
C22_SessionExpiredAborts ==
    \A i \in 1..Len(op.calls) :
       IsSessionExpired(op.calls[i].outcome) => AbortedWithRefresh(i)

\* C22: an error of send_dm whose message says "login_required" and is not a
\* rate-limit message, and an exception of class LoginRequired raised in
\* reply_to_comment, refresh the main session once and end the operation
\* with failure, without a further attempt; that attempt sets no cooldown.
C22_RecognisedExpiryAborts ==
    \A i \in 1..Len(op.calls) :
       LET o == op.calls[i].outcome
       IN ( \/ /\ op.kind = "dm"
               /\ "login_required" \in o.phrases
               /\ ~IsRateLimit(o)
            \/ /\ op.kind = "reply"
               /\ o.class = "LoginRequired" )
          => AbortedWithRefresh(i)

\* the second attempt of a send_dm met an expired session after a first
\* attempt that failed otherwise
C22_Witness ==
    /\ op.kind = "dm"
    /\ Len(op.calls) = 2
    /\ Failed(op.calls[1].outcome)
    /\ "login_required" \in op.calls[2].outcome.phrases
    /\ ~IsRateLimit(op.calls[2].outcome)
    /\ op.refreshes = 1
    /\ op.result = "false"

IsRestricted(o) == Failed(o) /\ o.phrases \cap {"spam", "blocked"} # {}

\* what follows an attempt i that ends the operation on a restricted account:
\* it is the last call, the operation has failed, and the attempt set a
\* cooldown of 30 minutes (send_dm) or 20 minutes (reply_to_comment) from
\* the moment of the call
AbortedWithLongCooldown(i) ==
    /\ i = Len(op.calls)
    /\ op.result = "false"
    /\ \E k \in 1..Len(op.cooldowns) :
          /\ op.cooldowns[k].attempt = i
          /\ op.cooldowns[k].minutes = IF op.kind = "dm" THEN 30 ELSE 20
          /\ op.cooldowns[k].expiry =
                op.calls[i].at + (IF op.kind = "dm" THEN 1800 ELSE 1200)

\* C23 as stated: an error whose message says "spam" or "blocked", and is not
\* a rate-limit message nor, for a reply, a content-unavailable one, sets a
\* cooldown of 30 minutes (send_dm) or 20 minutes (reply_to_comment) and
\* ends the operation with failure, without a further attempt.
C23_RestrictedSetsLongCooldown ==
    \A i \in 1..Len(op.calls) :
       LET o == op.calls[i].outcome
       IN ( /\ IsRestricted(o)
            /\ ~IsRateLimit(o)
            /\ op.kind = "reply" => ~IsUnavailable(o) )
          => AbortedWithLongCooldown(i)

\* C23: the same, for an error that is not a session-expired one either (for
\* send_dm a message that says "login_required", for reply_to_comment an
\* exception of class LoginRequired).
C23_RestrictedUnlessExpired ==
    \A i \in 1..Len(op.calls) :
       LET o == op.calls[i].outcome
       IN ( /\ IsRestricted(o)
            /\ ~IsRateLimit(o)
            /\ op.kind = "dm" => "login_required" \notin o.phrases
            /\ op.kind = "reply" =>
                  ~IsUnavailable(o) /\ o.class # "LoginRequired" )
          => AbortedWithLongCooldown(i)

\* the second attempt of a reply met "spam" after a first attempt that
\* returned nothing, and the cooldown of 20 minutes is in force
C23_Witness ==
    /\ op.kind = "reply"
    /\ Len(op.calls) = 2
    /\ op.calls[1].outcome = Falsy
    /\ op.calls[2].outcome.phrases = {"spam"}
    /\ op.result = "false"
    /\ sm.rate_limit_cooldown = op.calls[2].at + 1200

\* C24: in an operation whose attempts all met a rate-limit error, each
\* backoff slept is the double of the one before, and a backoff is slept
\* only after an attempt that is followed by another one.
C24_ExponentialBackoff ==
    (\A i \in 1..Len(op.calls) : IsRateLimit(op.calls[i].outcome)) =>
       /\ \A k \in 2..Len(op.sleeps) :
             op.sleeps[k].time = 2 * op.sleeps[k - 1].time
       /\ op.result # "running" =>
             \A k \in 1..Len(op.sleeps) : op.sleeps[k].attempt < Len(op.calls)

\* an exception that neither operation's handler recognises
IsUnclassified(o) ==
    /\ o.class \notin {"ok", "falsy"}
    /\ ~IsRateLimit(o)
    /\ ~IsRestricted(o)
    /\ op.kind = "dm" => "login_required" \notin o.phrases
    /\ op.kind = "reply" => ~IsUnavailable(o) /\ o.class # "LoginRequired"

\* C25: an operation that has returned after attempts that all raised an
\* unclassified error has made exactly 3 attempts, has slept a backoff (the
\* draw of 5 to 15, for a reply 5 to 12, times the attempt number) after the
\* first and after the second and none after the third, has set no cooldown
\* and has returned False.
C25_UnclassifiedRetriesThrice ==
    ( /\ op.result \notin {"none", "running"}
      /\ Len(op.calls) >= 1
      /\ \A i \in 1..Len(op.calls) : IsUnclassified(op.calls[i].outcome) )
    => /\ Len(op.calls) = 3
       /\ op.result = "false"
       /\ op.cooldowns = <<>>
       /\ Len(op.sleeps) = 2
       /\ \A k \in 1..2 :
             /\ op.sleeps[k].attempt = k
             /\ op.sleeps[k].time >= 5 * k
             /\ op.sleeps[k].time <= (IF op.kind = "dm" THEN 15 ELSE 12) * k
             /\ op.calls[k + 1].at = op.calls[k].at + op.sleeps[k].time

\* three attempts of a send_dm have raised an unclassified error
C25_Witness ==
    /\ op.kind = "dm"
    /\ Len(op.calls) = 3
    /\ \A i \in 1..3 : op.calls[i].outcome = Err("ClientError", {})
    /\ op.result = "false"
    /\ Len(op.sleeps) = 2
    /\ sm.rate_limit_cooldown = None

\* the instant of the last action of the category of the call, before the
\* call (None: no such action, or a category that has no such instant)
LastOfCategory ==
    CASE op.action_type = "dm" -> op.before.last_dm_time
      [] op.action_type = "reply" -> op.before.last_reply_time
      [] op.action_type = "scan" -> op.before.last_comment_scan_time
      [] OTHER -> None

\* a call of wait_for_action that has returned True
Waited == op.kind = "wait_for_action" /\ op.result

\* C26: a call of wait_for_action made when no cooldown is active, for a
\* category whose last action was elapsed seconds before, has blocked for
\* exactly max(0, delay - elapsed) seconds, whatever elapsed is.
C26_BlocksForShortfall ==
    (Waited /\ LastOfCategory # None) =>
       now - op.at = Max(0, op.delay - (op.at - LastOfCategory))

\* C27: after a call of wait_for_action that has returned True, the last
\* entry of action_history is the one of the call (its category, the
\* instant it returned from the wait), the last-action instant of a dm,
\* reply or scan is that instant and the two others are unchanged, and
\* every entry of action_history is less than 2 hours older than the call.
C27_RecordsAndPrunes ==
    Waited =>
       /\ Len(sm.action_history) >= 1
       /\ sm.action_history[Len(sm.action_history)] =
             [type |-> op.action_type, time |-> now]
       /\ sm.last_dm_time =
             IF op.action_type = "dm" THEN now ELSE op.before.last_dm_time
       /\ sm.last_reply_time =
             IF op.action_type = "reply" THEN now
             ELSE op.before.last_reply_time
       /\ sm.last_comment_scan_time =
             IF op.action_type = "scan" THEN now
             ELSE op.before.last_comment_scan_time
       /\ \A i \in 1..Len(sm.action_history) :
             sm.action_history[i].time > op.at - 7200

\* a call made more than 2 hours after the previous one has returned True:
\* the entry of the previous call is gone, the one of this call is there
C27_Witness ==
    /\ Waited
    /\ op.action_type = "reply"
    /\ Len(op.before.action_history) = 1
    /\ op.before.action_history[1].time <= op.at - 7200
    /\ Len(sm.action_history) = 1
    /\ sm.last_reply_time = now

\* C28: a step of the loop in which the comments of a post are fetched from
\* the platform is taken when no cooldown is active, and the fetch is
\* recorded as an action of category scan made at that instant.
C28_ScansArePaced ==
    [][ (pc = "post" /\ pc' = "comment" /\ monitor_client)
        => /\ ~CooldownActive
           /\ sm'.last_comment_scan_time # None
           /\ \E i \in 1..Len(sm'.action_history) :
                 sm'.action_history[i].type = "scan" ]_vars

\* C29: after set_rate_limit_cooldown(m) called at instant t, the expiry is
\* t + m minutes, also when the expiry set before was later.
C29_CooldownOverwritten ==
    op.kind = "set_rate_limit_cooldown" =>
       sm.rate_limit_cooldown = op.at + op.minutes * 60

\* a cooldown of 15 minutes set at instant 0 was replaced at instant 2 by
\* one of 10 minutes, which has expired before the first would have
C29_Witness ==
    /\ op.kind = "set_rate_limit_cooldown"
    /\ op.minutes = 10
    /\ op.at = 2
    /\ op.before = 900
    /\ sm.rate_limit_cooldown = 602
    /\ now = 602

\* the rule of the specification: the positions of the shorter word at which
\* the two words differ, plus the difference of the lengths, against 2 when
\* the longer word has more than 4 characters and against 1 otherwise
WithinTolerance(a, b) ==
    LET short == IF Len(a) <= Len(b) THEN a ELSE b
        long == IF Len(a) <= Len(b) THEN b ELSE a
        gap == Len(long) - Len(short)
        mismatches == Cardinality({i \in 1..Len(short) : short[i] # long[i]})
    IN /\ gap <= 2
       /\ mismatches + gap <= (IF Len(long) > 4 THEN 2 ELSE 1)

\* C30: simple_typo_check(word1, word2) is true exactly when the words are
\* within that tolerance, and simple_typo_check(word2, word1) is the same.
C30_TypoCheckRule ==
    op.kind = "simple_typo_check" =>
       /\ op.result <=> WithinTolerance(op.word1, op.word2)
       /\ op.swapped <=> op.result

\* a word of 5 letters and one of 4 that differ at one position: two
\* differences, accepted because the longer word has more than 4 letters
C30_Witness ==
    /\ op.kind = "simple_typo_check"
    /\ op.word1 = <<"a", "a", "a", "a", "a">>
    /\ op.word2 = <<"a", "a", "a", "b">>
    /\ op.result
    /\ op.swapped

\* the comment ids the platform holds for an item: no more distinct ids than
\* these can ever be observed for it
IdsOfItem(post_id) ==
    UNION {{f[i] : i \in 1..Len(f)} : f \in Fetches(post_id)}

NoDuplicates(list) ==
    \A i, j \in 1..Len(list) : list[i] = list[j] => i = j

\* C31: the comments-observed count of every item of the posts store counts
\* distinct comment ids (so it never exceeds the number of comment ids of the
\* item), and comment_users and dm_users hold no username twice, after any
\* number of cycles.
C31_CountsDistinctComments ==
    \A i \in 1..Len(posts_file) :
       /\ posts_file[i].stats.total_comments_found
             <= Cardinality(IdsOfItem(posts_file[i].id))
       /\ NoDuplicates(posts_file[i].stats.comment_users)
       /\ NoDuplicates(posts_file[i].stats.dm_users)

\* the counter of an item in a posts list, 0 when the list has no such item
CounterOf(list, post_id, name) ==
    LET k == IndexOfPost(list, post_id)
    IN IF k = 0 THEN 0
       ELSE IF name = "dms" THEN list[k].stats.dms ELSE list[k].stats.replies

\* the step is the return of a successful send_dm / reply_to_comment for an
\* item
SucceedsFor(post_id, kind) ==
    /\ pc = (IF kind = "dm" THEN "dm_attempt" ELSE "reply_attempt")
    /\ post.id = post_id
    /\ op'.kind = kind
    /\ op'.result = "true"

\* C32: the persisted dms and replies counters of an item count the
\* successful send_dm and reply_to_comment operations for it: a step changes
\* the counter of an item that stays in the store only by adding one at the
\* return of a successful operation, also when the bot thread writes the
\* store while the monitoring thread updates statistics.
C32_CountersCountSuccesses ==
    [][\A p \in PostIds :
          (IndexOfPost(posts_file, p) # 0 /\ IndexOfPost(posts_file', p) # 0)
          => /\ CounterOf(posts_file', p, "dms") =
                  CounterOf(posts_file, p, "dms")
                  + (IF SucceedsFor(p, "dm") THEN 1 ELSE 0)
             /\ CounterOf(posts_file', p, "replies") =
                  CounterOf(posts_file, p, "replies")
                  + (IF SucceedsFor(p, "reply") THEN 1 ELSE 0)]_vars

\* C33: a PostManager operation that has returned is not undone by the
\* monitoring thread: while the bot is idle, the post it deleted last is not
\* in the store, and the post it disabled last is not enabled.
C33_OperatorMutationStands ==
    (pm.pc = "idle" /\ pm.kind # "none")
    => \A i \in 1..Len(posts_file) :
          posts_file[i].id = pm.post_id
          => /\ pm.kind # "delete"
             /\ pm.kind = "toggle" => posts_file[i].enabled = pm.result

\* the positions of the monitoring thread inside the body of
\* `for post in active_posts`
InPostBody ==
    pc \in {"post", "comment", "persist", "send_dm", "dm_attempt", "between",
            "reply", "reply_attempt", "after_reply"}

\* the post is as it was when the process started: no id resolved, no
\* statistics
Untouched(p) ==
    /\ p.ig_post_id = (IF p.id = "A" THEN PostA.ig_post_id ELSE "")
    /\ p.stats = EmptyStats

\* C34: a post that is disabled is not handled by a cycle: its id is not
\* resolved, its comments are not fetched, no executor operation and no
\* ledger mark is made for it and its statistics stay as they were.  A cycle
\* that finds no enabled post reads and writes no ledger, calls neither the
\* platform nor the safety manager, and ends with the 30 second sleep.
C34_DisabledNotMonitored ==
    /\ [](\A i \in 1..Len(posts_file) :
            ~posts_file[i].enabled
            => /\ posts_file[i].id \notin cycle.visited
               /\ ~cycle.fetched[posts_file[i].id].done
               /\ Untouched(posts_file[i])
               /\ \A k \in 1..Len(cycle_log) :
                     cycle_log[k].url # posts_file[i].url
               /\ InPostBody => post.id # posts_file[i].id)
    /\ [][(/\ cycles' = cycles + 1
           /\ \A i \in 1..Len(posts_file) : ~posts_file[i].enabled)
          => /\ now' = now + IdleSleep
             /\ pc' = "cycle_start"
             /\ UNCHANGED <<files, sm, replied_data, dm_invocations,
                            reply_invocations, op>>
             /\ cycle'.visited = {}
             /\ \A p \in PostIds : ~cycle'.fetched[p].done]_vars

\* a cycle over the enabled post A has sent a DM for comment 1 and finished,
\* with post B disabled
C34_Witness ==
    /\ cycle.done
    /\ cycle.visited = {"A"}
    /\ Len(posts_file) = 2
    /\ ~posts_file[2].enabled
    /\ dm_invocations[1] = 1

\* the monitoring thread is between the ledger mark of comment c and the
\* invocation of reply_to_comment for it
BeingHandled(c) ==
    /\ pc \in {"persist", "send_dm", "dm_attempt", "between", "reply"}
    /\ comment.pk = c

\* C35: a comment whose mark was persisted gets send_dm and then
\* reply_to_comment, whether send_dm returned true or false; and a step
\* changes the dms / replies counter of a post only by adding one when the
\* send_dm / reply_to_comment for a comment of that post returns true.
C35_ReplyFollowsDm ==
    /\ [](\A c \in CommentIds :
            LET e == EventsOf(c)
            IN /\ \/ IsPrefix(e, <<"mark", "persist", "send_dm",
                                   "reply_to_comment">>)
                  \/ e = <<"mark", "persist_failed">>
               /\ (Len(e) >= 2 /\ e[2] = "persist" /\ ~BeingHandled(c))
                  => e = <<"mark", "persist", "send_dm", "reply_to_comment">>)
    /\ [][\A p \in PostIds :
             /\ CounterOf(posts_file', p, "dms") # CounterOf(posts_file, p, "dms")
                => /\ SucceedsFor(p, "dm")
                   /\ CounterOf(posts_file', p, "dms")
                        = CounterOf(posts_file, p, "dms") + 1
             /\ CounterOf(posts_file', p, "replies")
                   # CounterOf(posts_file, p, "replies")
                => /\ SucceedsFor(p, "reply")
                   /\ CounterOf(posts_file', p, "replies")
                        = CounterOf(posts_file, p, "replies") + 1]_vars

\* send_dm for comment 1 was attempted on the platform and returned false
\* (the dms counter is 0), and reply_to_comment was invoked and succeeded
C35_Witness ==
    /\ main_client
    /\ EventsOf(1) = <<"mark", "persist", "send_dm", "reply_to_comment">>
    /\ op.kind = "reply"
    /\ op.result = "true"
    /\ CounterOf(posts_file, "A", "dms") = 0
    /\ CounterOf(posts_file, "A", "replies") = 1

\* C36: after the k-th match of a post in a cycle the thread sleeps a
\* progressive delay only when k >= 2; with n = k - 1 matches handled before,
\* the delay is in [35, 55] for n = 1, in [43, 67] for n = 2 or 3 and in
\* [50, 80] for n > 3.
C36_ProgressiveDelay ==
    [][pc = "after_reply"
       => LET n == new_matches
              d == now' - now
          IN /\ new_matches' = n + 1
             /\ n = 0 => d = 0
             /\ n = 1 => (35 <= d /\ d <= 55)
             /\ n \in {2, 3} => (43 <= d /\ d <= 67)
             /\ n > 3 => (50 <= d /\ d <= 80)]_vars

\* the fifth match of post C has been handled, with the delay of the tier of
\* more than 3 matches
C36_Witness == new_matches = 5 /\ pc = "comment" /\ post.id = "C"

\* every comment id of a per-post set of the ledger is in its global set
GlobalCoversPosts(ledger) ==
    \A u \in DOMAIN ledger.posts : ledger.posts[u] \subseteq ledger.total

\* C37: from a ledger whose global set covers its per-post sets, the ledger
\* keeps that property in every state, in memory and in replied.json
\* whenever the file can be read.
C37_GlobalSetCoversPostSets ==
    /\ GlobalCoversPosts(replied_data)
    /\ replied_file.kind = "json" => GlobalCoversPosts(replied_file)

\* comment 1 of post A has been marked and persisted, in both sets
C37_Witness ==
    /\ replied_file.kind = "json"
    /\ "urlA" \in DOMAIN replied_file.posts
    /\ replied_file.posts["urlA"] = {1, 2}
    /\ replied_file.total = {1, 2}

\* C38: the clock of a run never goes back, and no step of the monitoring
\* loop replaces a cooldown expiry by an earlier one: every call of
\* set_rate_limit_cooldown made by send_dm or reply_to_comment leaves an
\* expiry at or after the one it found.
C38_ExpiryNeverEarlier ==
    [][/\ now' >= now
       /\ sm.rate_limit_cooldown # None
          => /\ sm'.rate_limit_cooldown # None
             /\ sm'.rate_limit_cooldown >= sm.rate_limit_cooldown]_vars

\* an operation has set the cooldown twice, the second expiry later than
\* the first
C38_Witness ==
    /\ Len(op.cooldowns) >= 2
    /\ op.cooldowns[2].expiry > op.cooldowns[1].expiry
    /\ sm.rate_limit_cooldown = op.cooldowns[Len(op.cooldowns)].expiry

\* C39: send_dm and reply_to_comment return to the loop on every path: a
\* step inside one of them, whatever the platform, the authentication check
\* or the refresh did, stays inside the operation or reaches the statement
\* that follows it in the loop, in the same post; and a cycle whose ledger
\* saves succeeded has invoked send_dm and then reply_to_comment for every
\* fetched comment of post A that was not in the ledger.
C39_ExecutorsAlwaysReturn ==
    /\ [][pc' # "crashed"
          => /\ pc \in {"send_dm", "dm_attempt"}
                => /\ pc' \in {"dm_attempt", "between"}
                   /\ pc' = "between" => op'.result \in {"true", "false"}
                   /\ pi' = pi /\ ci' = ci /\ cycle'.clean = cycle.clean
             /\ pc \in {"reply", "reply_attempt"}
                => /\ pc' \in {"reply_attempt", "after_reply"}
                   /\ pc' = "after_reply" => op'.result \in {"true", "false"}
                   /\ pi' = pi /\ ci' = ci /\ cycle'.clean = cycle.clean]_vars
    /\ []((pc = "cycle_end" /\ cycle.clean /\ cycle.fetched["A"].done)
          => \A i \in 1..Len(cycle.fetched["A"].list) :
                LET c == cycle.fetched["A"].list[i]
                IN ~LedgerHas(cycle.ledger0, c, "urlA")
                   => EventsOf(c) = <<"mark", "persist", "send_dm",
                                      "reply_to_comment">>)

\* in one cycle over comments 1 and 2 of post A, one send_dm met the one
\* failure of the run and returned false; both replies and the other
\* send_dm were made and succeeded
C39_Witness ==
    /\ pc = "cycle_end"
    /\ cycle.clean
    /\ cycles = 1
    /\ crashes = 0
    /\ faults = 1
    /\ EventsOf(1) = <<"mark", "persist", "send_dm", "reply_to_comment">>
    /\ EventsOf(2) = <<"mark", "persist", "send_dm", "reply_to_comment">>
    /\ CounterOf(posts_file, "A", "dms") = 1
    /\ CounterOf(posts_file, "A", "replies") = 2
    /\ Len(posts_file[1].stats.dm_users) = 1

====
